---- MODULE Spec2Model ----
(***************************************************************************)
(* KennelOS ETL: the Transformer (src/etl/transform.py), the three         *)
(* analyzers (src/dashboard/analytics/*.py) and the pipeline (src/main.py  *)
(* with src/etl/extract.py and src/etl/load.py) as state machines.         *)
(*                                                                         *)
(* Time is counted in whole hours since an epoch: a timestamp t lies on    *)
(* calendar date t \div 24 at hour-of-day t % 24.                          *)
(* A table (pandas DataFrame) is a record [cols, rows]: the set of its     *)
(* column names and the sequence of its rows; pd.DataFrame() is the table  *)
(* with no column and no row.  Every row carries idx, its pandas index.    *)
(* A cell that holds a number, a string or nothing is a record [k, n, d]:  *)
(*   k = "num"    the number n/d (d > 0, lowest terms)                     *)
(*   k = "numstr" a string that spells the number n/d                      *)
(*   k = "badstr" a string that spells no number                           *)
(*   k = "nan"    missing (None / NaN)                                     *)
(*   k = "inf"    +infinity (n = 1) or -infinity (n = -1)                  *)
(***************************************************************************)
EXTENDS Integers, Sequences, FiniteSets, TLC

VARIABLES
    raw,      \* raw_data: what DataExtractor.extract_all_data returned
    tables,   \* transformed_data: what transform_all_data returned
    pc,       \* position of the run
    config,   \* the module-level threshold dictionaries of analytics/config.py
    an,       \* the analyzers' snapshots: self.df, self.staff_df, self.activities_df
    now,      \* the wall clock, datetime.now(), in hours
    kept,     \* a remembered analyzer call: method, days, instant, result
    db,       \* the database output/kennelos.db: the rows of each of its tables
    run       \* the pipeline run in progress: steps taken, load results, return

vars == <<raw, tables, pc, config, an, now, kept, db, run>>

-----------------------------------------------------------------------------
(* Numbers *)

Abs(x) == IF x < 0 THEN -x ELSE x

RECURSIVE GCD(_, _)
GCD(a, b) == IF b = 0 THEN a ELSE GCD(b, a % b)

\* the number n/d, d # 0, in lowest terms with a positive denominator
R(n, d) ==
    LET g == GCD(Abs(n), Abs(d))
        s == IF d < 0 THEN -1 ELSE 1
    IN  [k |-> "num", n |-> (s * n) \div g, d |-> (s * d) \div g]

Num(n) == [k |-> "num", n |-> n, d |-> 1]
NumStr(n) == [k |-> "numstr", n |-> n, d |-> 1]
BadStr == [k |-> "badstr", n |-> 0, d |-> 1]
NaN == [k |-> "nan", n |-> 0, d |-> 1]
Inf(s) == [k |-> "inf", n |-> s, d |-> 1]

IsNum(c) == c.k = "num"
IsNull(c) == c.k = "nan"
\* a float that is neither NaN nor an infinity
IsFinite(c) == c.k = "num"

\* comparisons of floats: every comparison with NaN is False
Lt(a, b) ==
    CASE a.k = "num" /\ b.k = "num" -> a.n * b.d < b.n * a.d
      [] a.k = "inf" /\ b.k = "inf" -> a.n < b.n
      [] a.k = "inf" /\ b.k = "num" -> a.n < 0
      [] a.k = "num" /\ b.k = "inf" -> b.n > 0
      [] OTHER -> FALSE
Le(a, b) == Lt(a, b) \/ (a.k \in {"num", "inf"} /\ a = b)
Gt(a, b) == Lt(b, a)
Ge(a, b) == Le(b, a)

Neg(a) == IF a.k \in {"num", "inf"} THEN [a EXCEPT !.n = -@] ELSE a

Add(a, b) ==
    CASE a.k = "num" /\ b.k = "num" -> R(a.n * b.d + b.n * a.d, a.d * b.d)
      [] a.k = "inf" /\ b.k = "num" -> a
      [] a.k = "num" /\ b.k = "inf" -> b
      [] a.k = "inf" /\ b.k = "inf" /\ a.n = b.n -> a
      [] OTHER -> NaN

Sub(a, b) == Add(a, Neg(b))

Mul(a, b) ==
    IF a.k = "num" /\ b.k = "num" THEN R(a.n * b.n, a.d * b.d) ELSE NaN

\* float division as pandas/numpy do it: x/0 is an infinity, 0/0 is NaN
Div(a, b) ==
    CASE a.k = "num" /\ b.k = "num" /\ b.n # 0 -> R(a.n * b.d, a.d * b.n)
      [] a.k = "num" /\ b.k = "num" /\ a.n > 0 -> Inf(1)
      [] a.k = "num" /\ b.k = "num" /\ a.n < 0 -> Inf(-1)
      [] a.k = "inf" /\ b.k = "num" /\ b.n > 0 -> a
      [] a.k = "inf" /\ b.k = "num" /\ b.n < 0 -> Neg(a)
      [] a.k = "num" /\ b.k = "inf" -> Num(0)
      [] OTHER -> NaN

\* round(x, p) for p decimals, ties to even; NaN and infinities stay
Round(c, p) ==
    IF ~IsNum(c) THEN c
    ELSE LET s == IF p = 0 THEN 1 ELSE IF p = 1 THEN 10 ELSE IF p = 2 THEN 100 ELSE 1000
             m == c.n * s
             q == m \div c.d
             r2 == 2 * (m % c.d)
             up == r2 > c.d \/ (r2 = c.d /\ q % 2 = 1)
         IN  R(IF up THEN q + 1 ELSE q, s)

\* pd.to_numeric(x, errors='coerce')
to_numeric(c) ==
    CASE c.k = "num" -> c
      [] c.k = "inf" -> c
      [] c.k = "numstr" -> [c EXCEPT !.k = "num"]
      [] OTHER -> NaN

-----------------------------------------------------------------------------
(* Sequences and tables *)

Range(s) == {s[i] : i \in DOMAIN s}

\* the rows of s that satisfy Test, in order (boolean-mask indexing)
SelectRows(s, Test(_)) == SelectSeq(s, Test)

RECURSIVE SumCells(_)
\* Series.sum(): NaN cells are skipped
SumCells(cs) ==
    IF cs = <<>> THEN Num(0)
    ELSE IF ~IsNull(Head(cs)) THEN Add(Head(cs), SumCells(Tail(cs)))
    ELSE SumCells(Tail(cs))

SumOver(s, Cell(_)) == SumCells([i \in DOMAIN s |-> Cell(s[i])])

\* Series.mean(): NaN of an empty series
MeanOver(s, Cell(_)) ==
    LET present == SelectSeq([i \in DOMAIN s |-> Cell(s[i])], LAMBDA c : ~IsNull(c))
    IN  IF present = <<>> THEN NaN
        ELSE Div(SumCells(present), Num(Len(present)))

RECURSIVE SortedSeq(_)
\* sorted(set of integers)
SortedSeq(S) ==
    IF S = {} THEN <<>>
    ELSE LET m == CHOOSE x \in S : \A y \in S : x <= y
         IN  <<m>> \o SortedSeq(S \ {m})

\* pd.DataFrame()
EmptyFrame == [cols |-> {}, rows |-> <<>>]

\* DataFrame.empty: no row or no column
IsEmpty(df) == df.rows = <<>> \/ df.cols = {}

DateOf(t) == t \div 24
HourOf(t) == t % 24

DayNames == <<"Thursday", "Friday", "Saturday", "Sunday", "Monday", "Tuesday", "Wednesday">>
\* Series.dt.day_name(): day 0 of the epoch is a Thursday
DayName(t) == DayNames[(DateOf(t) % 7) + 1]

-----------------------------------------------------------------------------
(* DataTransformer, src/etl/transform.py *)

\* the columns of the records of pet_activity.json
ActivityFields ==
    {"pet_id", "pet_name", "activity_type", "timestamp", "duration_minutes",
     "staff_id", "notes"}
\* the columns of environment.csv and staff_logs.csv
EnvironmentFields ==
    {"timestamp", "kennel_section", "temperature_f", "humidity_percent",
     "noise_level_db"}
StaffFields == {"staff_id", "staff_name", "shift_start", "shift_end", "tasks_completed"}

\* pd.DataFrame(list of dicts): the rows get the index 0, 1, ...
DataFrameOf(records) ==
    [cols |-> ActivityFields,
     rows |-> [i \in DOMAIN records |-> records[i] @@ [idx |-> i - 1]]]

\* str.lower().str.strip() on the activity-type strings that occur
LowerStrip(s) ==
    CASE s = "Feeding " -> "feeding"
      [] s = "GROOMING" -> "grooming"
      [] s = " Medical" -> "medical"
      [] OTHER -> s

\* the mask of line 43: NaN > 0 is False
ValidDuration_Ge0(c) == Ge(c, Num(0))
ValidDuration(c) == Gt(c, Num(0))

transform_pet_activities(activities) ==
    IF activities = <<>> THEN EmptyFrame
    ELSE LET df == DataFrameOf(activities)
             derived == [i \in DOMAIN df.rows |->
                 [df.rows[i] EXCEPT !.duration_minutes = to_numeric(@)]
                 @@ [date |-> DateOf(df.rows[i].timestamp),
                     hour |-> HourOf(df.rows[i].timestamp),
                     day_of_week |-> DayName(df.rows[i].timestamp)]]
             valid == SelectRows(derived, LAMBDA r : ValidDuration(r.duration_minutes))
         IN  [cols |-> df.cols \cup {"date", "hour", "day_of_week"},
              rows |-> [i \in DOMAIN valid |->
                  [valid[i] EXCEPT !.activity_type = LowerStrip(@)]]]

_categorize_temperature(temp) ==
    IF IsNull(temp) THEN "unknown"
    ELSE IF Lt(temp, Num(65)) THEN "cold"
    ELSE IF Le(temp, Num(78)) THEN "comfortable"
    ELSE "warm"

_categorize_humidity(humidity) ==
    IF IsNull(humidity) THEN "unknown"
    ELSE IF Lt(humidity, Num(30)) THEN "dry"
    ELSE IF Le(humidity, Num(60)) THEN "comfortable"
    ELSE "humid"

_categorize_noise(noise) ==
    IF IsNull(noise) THEN "unknown"
    ELSE IF Lt(noise, Num(35)) THEN "quiet"
    ELSE IF Le(noise, Num(45)) THEN "normal"
    ELSE "loud"

\* dropna(subset=numeric_cols): a row stays when none of the three is NaN
AllMeasured_Any(r) ==
    ~IsNull(r.temperature_f) \/ ~IsNull(r.humidity_percent) \/ ~IsNull(r.noise_level_db)
AllMeasured(r) ==
    ~IsNull(r.temperature_f) /\ ~IsNull(r.humidity_percent) /\ ~IsNull(r.noise_level_db)

transform_environment_data(env_df) ==
    IF IsEmpty(env_df) THEN EmptyFrame
    ELSE LET coerced == [i \in DOMAIN env_df.rows |->
                 [env_df.rows[i] EXCEPT !.temperature_f = to_numeric(@),
                                        !.humidity_percent = to_numeric(@),
                                        !.noise_level_db = to_numeric(@)]
                 @@ [date |-> DateOf(env_df.rows[i].timestamp),
                     hour |-> HourOf(env_df.rows[i].timestamp)]]
             kept_rows == SelectRows(coerced, AllMeasured)
         IN  [cols |-> env_df.cols \cup
                       {"date", "hour", "temp_comfort", "humidity_comfort", "noise_comfort"},
              rows |-> [i \in DOMAIN kept_rows |-> kept_rows[i] @@
                  [temp_comfort |-> _categorize_temperature(kept_rows[i].temperature_f),
                   humidity_comfort |-> _categorize_humidity(kept_rows[i].humidity_percent),
                   noise_comfort |-> _categorize_noise(kept_rows[i].noise_level_db)]]]

_categorize_shift(hour) ==
    IF 5 <= hour /\ hour < 14 THEN "morning"
    ELSE IF 14 <= hour /\ hour < 22 THEN "afternoon"
    ELSE "night"

\* the mask of line 106: NaN >= 0 is False
ValidTasks_All(c) == TRUE
ValidTasks(c) == Ge(c, Num(0))

\* line 109: tasks_completed / shift_duration_hours, unguarded
TasksPerHour_Guarded(tasks, hours) == IF hours = Num(0) THEN Num(0) ELSE Div(tasks, hours)
TasksPerHour(tasks, hours) == Div(tasks, hours)

transform_staff_logs(staff_df) ==
    IF IsEmpty(staff_df) THEN EmptyFrame
    ELSE LET derived == [i \in DOMAIN staff_df.rows |->
                 [staff_df.rows[i] EXCEPT !.tasks_completed = to_numeric(@)]
                 @@ [shift_duration_hours |->
                         Num(staff_df.rows[i].shift_end - staff_df.rows[i].shift_start),
                     shift_type |-> _categorize_shift(HourOf(staff_df.rows[i].shift_start))]]
             valid == SelectRows(derived, LAMBDA r : ValidTasks(r.tasks_completed))
         IN  [cols |-> staff_df.cols \cup
                       {"shift_duration_hours", "shift_type", "tasks_per_hour"},
              rows |-> [i \in DOMAIN valid |-> valid[i] @@
                  [tasks_per_hour |->
                      TasksPerHour(valid[i].tasks_completed, valid[i].shift_duration_hours)]]]

\* lines 163-170: the dates of the three tables
SummaryDates(pet_df, env_df, staff_df) ==
    (IF ~IsEmpty(pet_df) THEN {r.date : r \in Range(pet_df.rows)} ELSE {})
    \cup (IF ~IsEmpty(env_df) THEN {r.date : r \in Range(env_df.rows)} ELSE {})
    \cup (IF ~IsEmpty(staff_df) THEN {DateOf(r.shift_start) : r \in Range(staff_df.rows)}
          ELSE {})

\* lines 178, 179, 195: the value written when the day has no row of the source
NoRowsValue_Null == NaN
NoRowsValue == Num(0)

\* lines 173-197: the summary of one date
DaySummary(date, pet_df, env_df, staff_df) ==
    LET day_activities ==
            IF ~IsEmpty(pet_df) THEN SelectRows(pet_df.rows, LAMBDA r : r.date = date)
            ELSE <<>>
        day_env ==
            IF ~IsEmpty(env_df) THEN SelectRows(env_df.rows, LAMBDA r : r.date = date)
            ELSE <<>>
        day_staff ==
            IF ~IsEmpty(staff_df)
            THEN SelectRows(staff_df.rows, LAMBDA r : DateOf(r.shift_start) = date)
            ELSE <<>>
    IN  [date |-> date,
         total_activities |-> Num(Len(day_activities)),
         total_activity_minutes |->
             IF day_activities # <<>>
             THEN SumOver(day_activities, LAMBDA r : r.duration_minutes)
             ELSE NoRowsValue,
         unique_pets |->
             IF day_activities # <<>>
             THEN Num(Cardinality({r.pet_id : r \in Range(day_activities)}))
             ELSE NoRowsValue,
         avg_temperature |->
             IF day_env # <<>> THEN MeanOver(day_env, LAMBDA r : r.temperature_f) ELSE NaN,
         avg_humidity |->
             IF day_env # <<>> THEN MeanOver(day_env, LAMBDA r : r.humidity_percent) ELSE NaN,
         avg_noise |->
             IF day_env # <<>> THEN MeanOver(day_env, LAMBDA r : r.noise_level_db) ELSE NaN,
         staff_shifts |-> Num(Len(day_staff)),
         total_tasks |->
             IF day_staff # <<>> THEN SumOver(day_staff, LAMBDA r : r.tasks_completed)
             ELSE NoRowsValue]

SummaryFields ==
    {"date", "total_activities", "total_activity_minutes", "unique_pets",
     "avg_temperature", "avg_humidity", "avg_noise", "staff_shifts", "total_tasks"}

\* the loop of line 172 visits sorted(dates)
SummaryOrder_Skip(dates) == IF dates = {} THEN <<>> ELSE Tail(SortedSeq(dates))
SummaryOrder(dates) == SortedSeq(dates)

create_daily_summary(pet_df, env_df, staff_df) ==
    LET order == SummaryOrder(SummaryDates(pet_df, env_df, staff_df))
    IN  IF order = <<>> THEN EmptyFrame
        ELSE [cols |-> SummaryFields,
              rows |-> [i \in DOMAIN order |->
                  DaySummary(order[i], pet_df, env_df, staff_df) @@ [idx |-> i - 1]]]

transform_all_data(raw_data) ==
    LET pet == transform_pet_activities(raw_data.pet_activities)
        env == transform_environment_data(raw_data.environment)
        staff == transform_staff_logs(raw_data.staff_logs)
    IN  [pet_activities |-> pet,
         environment |-> env,
         staff_logs |-> staff,
         daily_summary |-> create_daily_summary(pet, env, staff)]

-----------------------------------------------------------------------------
(* Threshold configuration, src/dashboard/analytics/config.py *)

ANALYSIS_WINDOWS == [short_term |-> 7, medium_term |-> 30, long_term |-> 90]

PET_WELLNESS ==
    [min_activity_minutes_per_day |-> Num(60),
     max_activity_minutes_per_day |-> Num(180),
     min_feeding_times_per_day |-> Num(2),
     max_feeding_times_per_day |-> Num(4),
     weight_change_alert_threshold |-> Num(5)]

ENVIRONMENT ==
    [temperature |-> [optimal_min |-> Num(68), optimal_max |-> Num(78),
                      alert_min |-> Num(60), alert_max |-> Num(85)],
     humidity |-> [optimal_min |-> Num(40), optimal_max |-> Num(60),
                   alert_min |-> Num(30), alert_max |-> Num(80)],
     noise |-> [normal_max |-> Num(40), alert_threshold |-> Num(45),
                critical_threshold |-> Num(50)]]

OPERATIONS ==
    [staff_performance |-> [min_tasks_per_hour |-> R(8, 10),
                            target_tasks_per_hour |-> R(12, 10),
                            max_tasks_per_hour |-> Num(2)],
     grooming_frequency |-> [target_days_between |-> 7, alert_days_overdue |-> 10],
     feeding_schedule |-> [expected_interval_hours |-> 8, late_threshold_minutes |-> 30]]

\* the dictionaries as the module holds them after import
Config ==
    [ANALYSIS_WINDOWS |-> ANALYSIS_WINDOWS, PET_WELLNESS |-> PET_WELLNESS,
     ENVIRONMENT |-> ENVIRONMENT, OPERATIONS |-> OPERATIONS]

-----------------------------------------------------------------------------
(* Analyzer results and windows *)

\* an exception that leaves the method
Raise(e) == [kind |-> "raise", exception |-> e]

\* a table column exists: df[col] raises KeyError otherwise
Has(df, columns) == columns \subseteq df.cols

\* a result mapping holds the key `error`
HasError(result) == "error" \in DOMAIN result

\* `days = days or ANALYSIS_WINDOWS[...]`: None and 0 give the default window
WindowDays(days, default) == IF days = 0 THEN default ELSE days

\* datetime.now() - timedelta(days=days)
Cutoff(instant, days) == instant - days * 24

\* pd.to_datetime of a column of dates: midnight of that date
Midnight(date) == date * 24

\* the constructors' `pd.to_datetime(self.df['date'])`
DatesToDatetime(df) ==
    IF "date" \in df.cols
    THEN [df EXCEPT !.rows = [i \in DOMAIN df.rows |->
                                 [df.rows[i] EXCEPT !.date = Midnight(@)]]]
    ELSE df

RECURSIVE OrderKeys(_)
\* the group keys <<id, name>> in the order groupby sorts them
OrderKeys(K) ==
    IF K = {} THEN <<>>
    ELSE LET k == CHOOSE x \in K : \A y \in K : x[1] <= y[1]
         IN  <<k>> \o OrderKeys(K \ {k})

RECURSIVE SortDescending(_, _)
\* sort_values(col, ascending=False) of the rows s[i], i in I; vals[i] is the
\* cell of row i in the sort column
SortDescending(I, vals) ==
    IF I = {} THEN <<>>
    ELSE LET i == CHOOSE x \in I :
                      /\ \A y \in I : ~Gt(vals[y], vals[x])
                      /\ \A y \in I : (y < x) => Gt(vals[x], vals[y])
         IN  <<i>> \o SortDescending(I \ {i}, vals)

-----------------------------------------------------------------------------
(* PetWellnessAnalyzer, src/dashboard/analytics/pet_wellness.py *)

\* __init__: self.df
PetWellnessAnalyzer(pet_activities_df) == DatesToDatetime(pet_activities_df)

_categorize_activity_level_Swapped(cfg, avg_minutes) ==
    IF Gt(avg_minutes, cfg.PET_WELLNESS.min_activity_minutes_per_day) THEN "high"
    ELSE IF Lt(avg_minutes, cfg.PET_WELLNESS.max_activity_minutes_per_day) THEN "low"
    ELSE "optimal"
_categorize_activity_level(cfg, avg_minutes) ==
    IF Lt(avg_minutes, cfg.PET_WELLNESS.min_activity_minutes_per_day) THEN "low"
    ELSE IF Gt(avg_minutes, cfg.PET_WELLNESS.max_activity_minutes_per_day) THEN "high"
    ELSE "optimal"

_categorize_feeding_frequency(cfg, avg_feedings) ==
    IF Lt(avg_feedings, cfg.PET_WELLNESS.min_feeding_times_per_day) THEN "infrequent"
    ELSE IF Gt(avg_feedings, cfg.PET_WELLNESS.max_feeding_times_per_day) THEN "excessive"
    ELSE "normal"

PetKeys(rows) == {<<r.pet_id, r.pet_name>> : r \in Range(rows)}
RowsOfPet(rows, key) == SelectSeq(rows, LAMBDA r : <<r.pet_id, r.pet_name>> = key)

\* the denominator of the per-pet mean: the groups (pet, date) of the pet
MeanDenominator_Window(dates, days) == days
MeanDenominator(dates, days) == Cardinality(dates)

get_avg_activity_time_per_pet(cfg, df, instant, days_arg) ==
    IF ~Has(df, {"timestamp", "pet_id", "pet_name", "date", "duration_minutes",
                 "activity_type"})
    THEN Raise("KeyError")
    ELSE
    LET days == WindowDays(days_arg, cfg.ANALYSIS_WINDOWS.medium_term)
        cutoff_date == Cutoff(instant, days)
        recent_df == SelectSeq(df.rows, LAMBDA r : r.timestamp >= cutoff_date)
        keys == OrderKeys(PetKeys(recent_df))
        \* daily_activity: one row per (pet, date)
        DatesOfPet(key) == {r.date : r \in Range(RowsOfPet(recent_df, key))}
        DayRows(key, date) == SelectSeq(RowsOfPet(recent_df, key), LAMBDA r : r.date = date)
        DaySums(key) ==
            LET ds == SortedSeq(DatesOfPet(key))
            IN  [i \in DOMAIN ds |->
                    SumCells([j \in DOMAIN DayRows(key, ds[i]) |->
                                 DayRows(key, ds[i])[j].duration_minutes])]
        DayCounts(key) ==
            LET ds == SortedSeq(DatesOfPet(key))
            IN  [i \in DOMAIN ds |-> Num(Len(DayRows(key, ds[i])))]
        PetAverage(key) ==
            LET n == Num(MeanDenominator(DatesOfPet(key), days))
                avg == Round(Div(SumCells(DaySums(key)), n), 2)
            IN  [pet_id |-> key[1], pet_name |-> key[2],
                 avg_daily_minutes |-> avg,
                 avg_daily_activities |-> Round(Div(SumCells(DayCounts(key)), n), 2),
                 activity_status |-> _categorize_activity_level(cfg, avg)]
        pet_averages == [i \in DOMAIN keys |-> PetAverage(keys[i])]
        order == SortDescending(DOMAIN pet_averages,
                                [i \in DOMAIN pet_averages |->
                                    pet_averages[i].avg_daily_minutes])
    IN  [kind |-> "table", rows |-> [i \in DOMAIN order |-> pet_averages[order[i]]]]

get_feeding_frequency_analysis(cfg, df, instant, days_arg) ==
    IF ~Has(df, {"timestamp", "pet_id", "pet_name", "date", "activity_type"})
    THEN Raise("KeyError")
    ELSE
    LET days == WindowDays(days_arg, cfg.ANALYSIS_WINDOWS.medium_term)
        cutoff_date == Cutoff(instant, days)
        feeding_df == SelectSeq(df.rows, LAMBDA r :
                          r.activity_type = "feeding" /\ r.timestamp >= cutoff_date)
        keys == OrderKeys(PetKeys(feeding_df))
        DatesOfPet(key) == {r.date : r \in Range(RowsOfPet(feeding_df, key))}
        \* daily_feeding: feedings_per_day of one (pet, date)
        PerDay(key, date) ==
            Len(SelectSeq(RowsOfPet(feeding_df, key), LAMBDA r : r.date = date))
        Counts(key) == {PerDay(key, d) : d \in DatesOfPet(key)}
        Total(key) == Len(RowsOfPet(feeding_df, key))
        PetFeeding(key) ==
            LET avg == Round(Div(Num(Total(key)), Num(Cardinality(DatesOfPet(key)))), 2)
            IN  [pet_id |-> key[1], pet_name |-> key[2],
                 avg_feedings_per_day |-> avg,
                 min_daily |-> Num(CHOOSE c \in Counts(key) : \A x \in Counts(key) : c <= x),
                 max_daily |-> Num(CHOOSE c \in Counts(key) : \A x \in Counts(key) : c >= x),
                 feeding_status |-> _categorize_feeding_frequency(cfg, avg)]
        avg_feedings == [i \in DOMAIN keys |-> PetFeeding(keys[i])]
    IN  [kind |-> "mapping",
         total_pets_analyzed |-> Len(avg_feedings),
         avg_feedings_across_kennel |->
             MeanOver(avg_feedings, LAMBDA r : r.avg_feedings_per_day),
         pets_with_irregular_feeding |->
             Len(SelectSeq(avg_feedings, LAMBDA r : r.feeding_status # "normal")),
         detailed_per_pet |-> avg_feedings]

\* str.contains('weight|Weight', case=False) on the notes that occur
MentionsWeight(notes) == notes \in {"weight check", "Weight: 12kg"}

get_weight_trend_analysis(cfg, df, instant, days_arg) ==
    IF ~Has(df, {"timestamp", "pet_id", "pet_name", "activity_type", "notes"})
    THEN Raise("KeyError")
    ELSE
    LET days == WindowDays(days_arg, cfg.ANALYSIS_WINDOWS.medium_term)
        cutoff_date == Cutoff(instant, days)
        medical_df == SelectSeq(df.rows, LAMBDA r :
                          r.activity_type = "medical" /\ r.timestamp >= cutoff_date)
        weight_mentions == SelectSeq(medical_df, LAMBDA r : MentionsWeight(r.notes))
        keys == OrderKeys(PetKeys(weight_mentions))
        Stamps(key) == {r.timestamp : r \in Range(RowsOfPet(weight_mentions, key))}
        PetChecks(key) ==
            LET first == CHOOSE t \in Stamps(key) : \A x \in Stamps(key) : t <= x
                latest == CHOOSE t \in Stamps(key) : \A x \in Stamps(key) : t >= x
            IN  [pet_id |-> key[1], pet_name |-> key[2],
                 total_weight_checks |-> Num(Len(RowsOfPet(weight_mentions, key))),
                 first_check |-> first, latest_check |-> latest,
                 latest_notes |-> RowsOfPet(weight_mentions, key)[1].notes,
                 days_between_checks |-> (latest - first) \div 24]
        weight_checks_per_pet == [i \in DOMAIN keys |-> PetChecks(keys[i])]
    IN  [kind |-> "mapping",
         pets_with_weight_monitoring |-> Len(weight_checks_per_pet),
         total_weight_checks |-> Len(weight_mentions),
         avg_checks_per_pet |->
             IF weight_checks_per_pet # <<>>
             THEN MeanOver(weight_checks_per_pet, LAMBDA r : r.total_weight_checks)
             ELSE Num(0),
         detailed_per_pet |-> weight_checks_per_pet,
         recent_weight_activities |->
             LET order == SortDescending(DOMAIN weight_mentions,
                              [i \in DOMAIN weight_mentions |->
                                  Num(weight_mentions[i].timestamp)])
             IN  [i \in 1..(IF Len(order) < 10 THEN Len(order) ELSE 10) |->
                     weight_mentions[order[i]]]]

\* the summary built from the three analyses (lines 165-182)
\* (pets / total_pets * 100) if total_pets > 0 else 0
WellnessRate_Fraction(pets, total_pets) ==
    IF total_pets > 0 THEN R(pets, total_pets) ELSE Num(0)
WellnessRate(pets, total_pets) ==
    IF total_pets > 0 THEN R(pets * 100, total_pets) ELSE Num(0)

PetWellnessSummaryOf(activity_analysis, feeding_analysis, weight_analysis) ==
        IF activity_analysis.kind = "raise" THEN activity_analysis
        ELSE IF feeding_analysis.kind = "raise" THEN feeding_analysis
        ELSE IF weight_analysis.kind = "raise" THEN weight_analysis
        ELSE
        LET total_pets == Len(activity_analysis.rows)
            active_pets == Len(SelectSeq(activity_analysis.rows,
                                   LAMBDA r : r.activity_status = "optimal"))
            well_fed_pets == Len(SelectSeq(feeding_analysis.detailed_per_pet,
                                     LAMBDA r : r.feeding_status = "normal"))
        IN  [kind |-> "mapping",
             total_pets |-> total_pets,
             activity_wellness_rate |-> WellnessRate(active_pets, total_pets),
             feeding_wellness_rate |-> WellnessRate(well_fed_pets, total_pets),
             pets_needing_attention |->
                 SelectSeq(activity_analysis.rows,
                           LAMBDA r : r.activity_status \in {"low", "high"}),
             activity_details |-> activity_analysis,
             feeding_details |-> feeding_analysis,
             weight_monitoring |-> weight_analysis]

get_pet_wellness_summary(cfg, df, instant) ==
    PetWellnessSummaryOf(get_avg_activity_time_per_pet(cfg, df, instant, 0),
                         get_feeding_frequency_analysis(cfg, df, instant, 0),
                         get_weight_trend_analysis(cfg, df, instant, 0))

-----------------------------------------------------------------------------
(* EnvironmentalAnalyzer, src/dashboard/analytics/environmental.py *)

\* __init__: self.df
EnvironmentalAnalyzer(environment_df) == DatesToDatetime(environment_df)

_rate_temperature_comfort_Exclusive(cfg, temp) ==
    LET c == cfg.ENVIRONMENT.temperature
    IN  IF Lt(c.optimal_min, temp) /\ Lt(temp, c.optimal_max) THEN "optimal"
        ELSE IF Lt(c.alert_min, temp) /\ Lt(temp, c.alert_max) THEN "acceptable"
        ELSE "poor"
_rate_temperature_comfort(cfg, temp) ==
    LET c == cfg.ENVIRONMENT.temperature
    IN  IF Le(c.optimal_min, temp) /\ Le(temp, c.optimal_max) THEN "optimal"
        ELSE IF Le(c.alert_min, temp) /\ Le(temp, c.alert_max) THEN "acceptable"
        ELSE "poor"

_rate_humidity_comfort(cfg, humidity) ==
    LET c == cfg.ENVIRONMENT.humidity
    IN  IF Le(c.optimal_min, humidity) /\ Le(humidity, c.optimal_max) THEN "optimal"
        ELSE IF Le(c.alert_min, humidity) /\ Le(humidity, c.alert_max) THEN "acceptable"
        ELSE "poor"

_categorize_noise_level_Strict(cfg, noise) ==
    LET c == cfg.ENVIRONMENT.noise
    IN  IF Lt(noise, c.normal_max) THEN "normal"
        ELSE IF Lt(noise, c.alert_threshold) THEN "elevated"
        ELSE IF Lt(noise, c.critical_threshold) THEN "high"
        ELSE "critical"
_categorize_noise_level(cfg, noise) ==
    LET c == cfg.ENVIRONMENT.noise
    IN  IF Le(noise, c.normal_max) THEN "normal"
        ELSE IF Le(noise, c.alert_threshold) THEN "elevated"
        ELSE IF Le(noise, c.critical_threshold) THEN "high"
        ELSE "critical"

_categorize_temperature_range(temp) ==
    IF Lt(temp, Num(65)) THEN "cold"
    ELSE IF Lt(temp, Num(72)) THEN "cool"
    ELSE IF Le(temp, Num(78)) THEN "optimal"
    ELSE IF Le(temp, Num(82)) THEN "warm"
    ELSE "hot"

\* Series.value_counts().to_dict()
ValueCounts(labels) ==
    [l \in Range(labels) |-> Cardinality({i \in DOMAIN labels : labels[i] = l})]

_get_comfort_summary(cfg, cols, rows) ==
    IF "temp_comfort" \in cols /\ "humidity_comfort" \in cols
    THEN [temperature_comfort_distribution |->
              ValueCounts([i \in DOMAIN rows |-> rows[i].temp_comfort]),
          humidity_comfort_distribution |->
              ValueCounts([i \in DOMAIN rows |-> rows[i].humidity_comfort]),
          noise_level_distribution |->
              IF "noise_comfort" \in cols
              THEN ValueCounts([i \in DOMAIN rows |-> rows[i].noise_comfort])
              ELSE <<>>]
    ELSE [temperature_comfort_distribution |->
              ValueCounts([i \in DOMAIN rows |->
                              _rate_temperature_comfort(cfg, rows[i].temperature_f)]),
          humidity_comfort_distribution |->
              ValueCounts([i \in DOMAIN rows |->
                              _rate_humidity_comfort(cfg, rows[i].humidity_percent)]),
          noise_level_distribution |->
              ValueCounts([i \in DOMAIN rows |->
                              _categorize_noise_level(cfg, rows[i].noise_level_db)])]

\* Series.min() and Series.max() of a column of numbers
MinCell(cs) == CHOOSE c \in Range(cs) : \A x \in Range(cs) : Le(c, x)
MaxCell(cs) == CHOOSE c \in Range(cs) : \A x \in Range(cs) : Ge(c, x)

RECURSIVE OrderSections(_)
\* the kennel sections in the order groupby sorts them
OrderSections(S) ==
    IF S = {} THEN <<>>
    ELSE LET x == IF "A" \in S THEN "A" ELSE IF "B" \in S THEN "B" ELSE CHOOSE y \in S : TRUE
         IN  <<x>> \o OrderSections(S \ {x})

\* The standard deviations (temp_std, humidity_std, noise_std and the std_*
\* columns) are square roots and are left out of the result.
get_temperature_humidity_averages(cfg, df, instant, days_arg, by_section) ==
    IF ~Has(df, {"timestamp", "temperature_f", "humidity_percent", "noise_level_db"})
    THEN Raise("KeyError")
    ELSE
    LET days == WindowDays(days_arg, cfg.ANALYSIS_WINDOWS.medium_term)
        cutoff_date == Cutoff(instant, days)
        recent_df == SelectSeq(df.rows, LAMBDA r : r.timestamp >= cutoff_date)
        sectioned == by_section /\ "kennel_section" \in df.cols
        sections == OrderSections({r.kennel_section : r \in Range(recent_df)})
        SectionStats(sec) ==
            LET rs == SelectSeq(recent_df, LAMBDA r : r.kennel_section = sec)
                temps == [i \in DOMAIN rs |-> rs[i].temperature_f]
                hums == [i \in DOMAIN rs |-> rs[i].humidity_percent]
                noises == [i \in DOMAIN rs |-> rs[i].noise_level_db]
                mean_t == Round(MeanOver(rs, LAMBDA r : r.temperature_f), 2)
                mean_h == Round(MeanOver(rs, LAMBDA r : r.humidity_percent), 2)
            IN  [kennel_section |-> sec,
                 mean_temperature_f |-> mean_t,
                 min_temperature_f |-> MinCell(temps), max_temperature_f |-> MaxCell(temps),
                 mean_humidity_percent |-> mean_h,
                 min_humidity_percent |-> MinCell(hums), max_humidity_percent |-> MaxCell(hums),
                 mean_noise_level_db |-> Round(MeanOver(rs, LAMBDA r : r.noise_level_db), 2),
                 min_noise_level_db |-> MinCell(noises), max_noise_level_db |-> MaxCell(noises),
                 temp_comfort_rating |-> _rate_temperature_comfort(cfg, mean_t),
                 humidity_comfort_rating |-> _rate_humidity_comfort(cfg, mean_h)]
    IN  \* lines 60-65: DataFrame.apply(axis=1) of a frame without rows gives back
        \* the frame, and a frame of 13 columns cannot be set as one column
        IF sectioned /\ recent_df = <<>> THEN Raise("ValueError")
        ELSE
        [kind |-> "mapping",
         overall |->
             [avg_temperature |-> MeanOver(recent_df, LAMBDA r : r.temperature_f),
              avg_humidity |-> MeanOver(recent_df, LAMBDA r : r.humidity_percent),
              avg_noise |-> MeanOver(recent_df, LAMBDA r : r.noise_level_db),
              total_readings |-> Len(recent_df),
              days_analyzed |-> days],
         by_section |->
             IF sectioned THEN [i \in DOMAIN sections |-> SectionStats(sections[i])]
             ELSE <<>>,
         comfort_summary |-> _get_comfort_summary(cfg, df.cols, recent_df)]

\* the mask recent_df['noise_level_db'] > threshold
AboveThreshold_Inclusive(r, threshold) == Ge(r.noise_level_db, threshold)
AboveThreshold(r, threshold) == Gt(r.noise_level_db, threshold)

get_noise_level_alerts(cfg, df, instant, days_arg) ==
    IF ~Has(df, {"timestamp", "noise_level_db", "date", "hour"})
    THEN Raise("KeyError")
    ELSE
    LET days == WindowDays(days_arg, cfg.ANALYSIS_WINDOWS.short_term)
        cutoff_date == Cutoff(instant, days)
        alert_threshold == cfg.ENVIRONMENT.noise.alert_threshold
        critical_threshold == cfg.ENVIRONMENT.noise.critical_threshold
        window == SelectSeq(df.rows, LAMBDA r : r.timestamp >= cutoff_date)
        \* the copy gets the column noise_category
        recent_df == [i \in DOMAIN window |-> window[i] @@
                         [noise_category |->
                             _categorize_noise_level(cfg, window[i].noise_level_db)]]
        alerts == SelectSeq(recent_df, LAMBDA r : AboveThreshold(r, alert_threshold))
        criticals == SelectSeq(recent_df, LAMBDA r : AboveThreshold(r, critical_threshold))
        hours == {r.hour : r \in Range(recent_df)}
        HourlyAvg(h) ==
            Round(MeanOver(SelectSeq(recent_df, LAMBDA r : r.hour = h),
                           LAMBDA r : r.noise_level_db), 2)
        peak == {h \in hours : Gt(HourlyAvg(h), alert_threshold)}
        slots == {<<r.date, r.hour>> : r \in Range(alerts)}
        day_cats == {<<r.date, r.noise_category>> : r \in Range(recent_df)}
    IN  [kind |-> "mapping",
         total_alerts |-> Len(alerts),
         critical_alerts |-> Len(criticals),
         alerts_per_day |-> R(Len(alerts), days),
         hourly_alerts |->
             [k \in slots |->
                 Len(SelectSeq(alerts, LAMBDA r : <<r.date, r.hour>> = k))],
         daily_breakdown |->
             [k \in day_cats |->
                 Len(SelectSeq(recent_df, LAMBDA r : <<r.date, r.noise_category>> = k))],
         peak_noise_hours |-> [h \in peak |-> HourlyAvg(h)],
         noise_distribution |->
             ValueCounts([i \in DOMAIN recent_df |-> recent_df[i].noise_category]),
         recent_alerts |->
             SubSeq(alerts, IF Len(alerts) > 10 THEN Len(alerts) - 9 ELSE 1, Len(alerts))]

\* Pearson's r of the pairs (xs[i], ys[i]): its sign and its square, which are
\* fractions where r itself is a square root; NaN below 2 pairs or when one side
\* does not vary
Correlation(xs, ys) ==
    LET n == Num(Len(xs))
        sx == SumCells(xs)
        sy == SumCells(ys)
        sxy == SumCells([i \in DOMAIN xs |-> Mul(xs[i], ys[i])])
        sxx == SumCells([i \in DOMAIN xs |-> Mul(xs[i], xs[i])])
        syy == SumCells([i \in DOMAIN ys |-> Mul(ys[i], ys[i])])
        cov == Sub(Mul(n, sxy), Mul(sx, sy))
        vx == Sub(Mul(n, sxx), Mul(sx, sx))
        vy == Sub(Mul(n, syy), Mul(sy, sy))
    IN  IF Len(xs) < 2 \/ ~IsNum(vx) \/ ~IsNum(vy) \/ vx.n = 0 \/ vy.n = 0
        THEN [k |-> "nan", sign |-> 0, square |-> NaN]
        ELSE [k |-> "corr",
              sign |-> IF cov.n > 0 THEN 1 ELSE IF cov.n < 0 THEN -1 ELSE 0,
              square |-> Div(Mul(cov, cov), Mul(vx, vy))]

\* |r| >= 0.7, 0.4, 0.2 compared on the squares
_interpret_correlation(correlation) ==
    IF correlation.k = "nan" THEN "negligible"
    ELSE IF Ge(correlation.square, R(49, 100)) THEN "strong"
    ELSE IF Ge(correlation.square, R(16, 100)) THEN "moderate"
    ELSE IF Ge(correlation.square, R(4, 100)) THEN "weak"
    ELSE "negligible"

TemperatureRanges == <<"cold", "cool", "hot", "optimal", "warm">>

\* line 157: the method works on a copy of the table it is given
PassedTableAfter_NoCopy(pet_activities_df) == DatesToDatetime(pet_activities_df)
PassedTableAfter(pet_activities_df) == pet_activities_df

get_temperature_activity_correlation(cfg, df, pet_activities_df, instant, days_arg) ==
    IF ~Has(df, {"timestamp", "date", "hour", "temperature_f", "humidity_percent",
                 "noise_level_db"})
    THEN Raise("KeyError")
    ELSE IF ~Has(pet_activities_df, {"timestamp", "date", "hour", "duration_minutes",
                                     "pet_id"})
    THEN Raise("KeyError")
    ELSE
    LET days == WindowDays(days_arg, cfg.ANALYSIS_WINDOWS.medium_term)
        cutoff_date == Cutoff(instant, days)
        env_rows == SelectSeq(df.rows, LAMBDA r : r.timestamp >= cutoff_date)
        activities_df == DatesToDatetime(pet_activities_df)
        act_rows == SelectSeq(activities_df.rows, LAMBDA r : r.timestamp >= cutoff_date)
        env_keys == {<<r.date, r.hour>> : r \in Range(env_rows)}
        act_keys == {<<r.date, r.hour>> : r \in Range(act_rows)}
        \* the inner join on (date, hour), in the order of the left keys
        joined == env_keys \cap act_keys
        order == LET ts == SortedSeq({k[1] + k[2] : k \in joined})
                 IN  [i \in DOMAIN ts |-> CHOOSE k \in joined : k[1] + k[2] = ts[i]]
        Merged(k) ==
            LET es == SelectSeq(env_rows, LAMBDA r : <<r.date, r.hour>> = k)
                as == SelectSeq(act_rows, LAMBDA r : <<r.date, r.hour>> = k)
                t == MeanOver(es, LAMBDA r : r.temperature_f)
            IN  [date |-> k[1], hour |-> k[2],
                 temperature_f |-> t,
                 humidity_percent |-> MeanOver(es, LAMBDA r : r.humidity_percent),
                 noise_level_db |-> MeanOver(es, LAMBDA r : r.noise_level_db),
                 total_activity_minutes |-> SumOver(as, LAMBDA r : r.duration_minutes),
                 activity_count |-> Num(Len(as)),
                 temp_range |-> _categorize_temperature_range(t)]
        merged_df == [i \in DOMAIN order |-> Merged(order[i])]
        temps == [i \in DOMAIN merged_df |-> merged_df[i].temperature_f]
        hums == [i \in DOMAIN merged_df |-> merged_df[i].humidity_percent]
        minutes == [i \in DOMAIN merged_df |-> merged_df[i].total_activity_minutes]
        counts == [i \in DOMAIN merged_df |-> merged_df[i].activity_count]
        ranges == {merged_df[i].temp_range : i \in DOMAIN merged_df}
        RangeMean(g) ==
            MeanOver(SelectSeq(merged_df, LAMBDA r : r.temp_range = g),
                     LAMBDA r : r.total_activity_minutes)
        temp_activity_corr == Correlation(temps, minutes)
    IN  IF merged_df = <<>>
        THEN [kind |-> "mapping", error |-> "No matching data found for correlation analysis"]
        ELSE
        [kind |-> "mapping",
         temperature_activity_correlation |-> temp_activity_corr,
         temperature_count_correlation |-> Correlation(temps, counts),
         humidity_activity_correlation |-> Correlation(hums, minutes),
         activity_by_temperature_range |->
             [g \in ranges |->
                 [total_activity_minutes |-> Round(RangeMean(g), 2),
                  activity_count |->
                      Round(MeanOver(SelectSeq(merged_df, LAMBDA r : r.temp_range = g),
                                     LAMBDA r : r.activity_count), 2)]],
         \* idxmax: the first range, in the sorted order of the labels, with the
         \* largest mean
         optimal_temperature_range |->
             LET best == {i \in DOMAIN TemperatureRanges :
                             /\ TemperatureRanges[i] \in ranges
                             /\ \A g \in ranges :
                                    ~Gt(RangeMean(g), RangeMean(TemperatureRanges[i]))}
             IN  TemperatureRanges[CHOOSE i \in best : \A j \in best : i <= j],
         data_points |-> Len(merged_df),
         correlation_strength |-> _interpret_correlation(temp_activity_corr)]

_calculate_comfort_score_ZeroOutside(cfg, overall_stats) ==
    LET e == cfg.ENVIRONMENT
        temp_score ==
            IF Le(e.temperature.optimal_min, overall_stats.avg_temperature)
               /\ Le(overall_stats.avg_temperature, e.temperature.optimal_max)
            THEN 100 ELSE 0
        humidity_score ==
            IF Le(e.humidity.optimal_min, overall_stats.avg_humidity)
               /\ Le(overall_stats.avg_humidity, e.humidity.optimal_max)
            THEN 100 ELSE 50
        noise_score ==
            IF Le(overall_stats.avg_noise, e.noise.normal_max) THEN 100 ELSE 50
    IN  Round(R(temp_score + humidity_score + noise_score, 3), 1)
_calculate_comfort_score(cfg, overall_stats) ==
    LET e == cfg.ENVIRONMENT
        temp_score ==
            IF Le(e.temperature.optimal_min, overall_stats.avg_temperature)
               /\ Le(overall_stats.avg_temperature, e.temperature.optimal_max)
            THEN 100 ELSE 50
        humidity_score ==
            IF Le(e.humidity.optimal_min, overall_stats.avg_humidity)
               /\ Le(overall_stats.avg_humidity, e.humidity.optimal_max)
            THEN 100 ELSE 50
        noise_score ==
            IF Le(overall_stats.avg_noise, e.noise.normal_max) THEN 100 ELSE 50
    IN  Round(R(temp_score + humidity_score + noise_score, 3), 1)

\* the summary built from the analyses (lines 209-219); given is FALSE when the
\* argument pet_activities_df is left out (None)
EnvironmentalSummaryOf(cfg, given, temp_humidity, noise_analysis, correlation_analysis) ==
    IF temp_humidity.kind = "raise" THEN temp_humidity
    ELSE IF noise_analysis.kind = "raise" THEN noise_analysis
    ELSE IF given /\ correlation_analysis.kind = "raise" THEN correlation_analysis
    ELSE [kind |-> "mapping",
          environmental_conditions |-> temp_humidity,
          noise_monitoring |-> noise_analysis,
          overall_comfort_score |-> _calculate_comfort_score(cfg, temp_humidity.overall)]
         @@ (IF given THEN [temperature_activity_insights |-> correlation_analysis]
             ELSE <<>>)

get_environmental_summary(cfg, df, given, pet_activities_df, instant) ==
    EnvironmentalSummaryOf(
        cfg, given,
        get_temperature_humidity_averages(cfg, df, instant, 0, TRUE),
        get_noise_level_alerts(cfg, df, instant, 0),
        get_temperature_activity_correlation(cfg, df, pet_activities_df, instant, 0))

-----------------------------------------------------------------------------
(* OperationsAnalyzer, src/dashboard/analytics/operations.py *)

\* __init__: self.staff_df and self.activities_df
OperationsAnalyzerStaff(staff_logs_df) == staff_logs_df
OperationsAnalyzerActivities(pet_activities_df) == DatesToDatetime(pet_activities_df)

_rate_staff_performance_MaxAsTarget(cfg, tasks_per_hour) ==
    LET c == cfg.OPERATIONS.staff_performance
    IN  IF Ge(tasks_per_hour, c.max_tasks_per_hour) THEN "excellent"
        ELSE IF Ge(tasks_per_hour, c.min_tasks_per_hour) THEN "satisfactory"
        ELSE "below_target"
_rate_staff_performance_Strict(cfg, tasks_per_hour) ==
    LET c == cfg.OPERATIONS.staff_performance
    IN  IF Gt(tasks_per_hour, c.target_tasks_per_hour) THEN "excellent"
        ELSE IF Gt(tasks_per_hour, c.min_tasks_per_hour) THEN "satisfactory"
        ELSE "below_target"
_rate_staff_performance(cfg, tasks_per_hour) ==
    LET c == cfg.OPERATIONS.staff_performance
    IN  IF Ge(tasks_per_hour, c.target_tasks_per_hour) THEN "excellent"
        ELSE IF Ge(tasks_per_hour, c.min_tasks_per_hour) THEN "satisfactory"
        ELSE "below_target"

\* the `if ....empty: return {'error': ...}` of lines 57 and 130
EmptyCheck_Missing(rows) == FALSE
EmptyCheck(rows) == rows = <<>>

\* the masks of pets_needing_grooming and pets_overdue_grooming
NeedsGrooming(r, target_days) == r.days_since_last_groom > target_days
OverdueGrooming_Inclusive(r, alert_days) == r.days_since_last_groom >= alert_days
OverdueGrooming(r, alert_days) == r.days_since_last_groom > alert_days

get_grooming_cleaning_frequency(cfg, activities_df, instant, days_arg) ==
    IF ~Has(activities_df, {"activity_type", "timestamp"}) THEN Raise("KeyError")
    ELSE
    LET days == WindowDays(days_arg, cfg.ANALYSIS_WINDOWS.medium_term)
        cutoff_date == Cutoff(instant, days)
        grooming_df == SelectSeq(activities_df.rows, LAMBDA r :
                           r.activity_type = "grooming" /\ r.timestamp >= cutoff_date)
        keys == OrderKeys(PetKeys(grooming_df))
        target_days == cfg.OPERATIONS.grooming_frequency.target_days_between
        alert_days == cfg.OPERATIONS.grooming_frequency.alert_days_overdue
        PetGrooming(key) ==
            LET rs == RowsOfPet(grooming_df, key)
                stamps == {r.timestamp : r \in Range(rs)}
                first == CHOOSE t \in stamps : \A x \in stamps : t <= x
                latest == CHOOSE t \in stamps : \A x \in stamps : t >= x
            IN  [pet_id |-> key[1], pet_name |-> key[2],
                 total_grooming_sessions |-> Len(rs),
                 first_groom |-> first, latest_groom |-> latest,
                 avg_duration |-> MeanOver(rs, LAMBDA r : r.duration_minutes),
                 days_since_last_groom |-> (instant - latest) \div 24,
                 grooming_frequency |->
                     IF Len(rs) > 1
                     THEN R((latest - first) \div 24,
                            IF Len(rs) - 1 > 1 THEN Len(rs) - 1 ELSE 1)
                     ELSE Num(0)]
        pet_grooming == [i \in DOMAIN keys |-> PetGrooming(keys[i])]
        pets_needing_grooming ==
            SelectSeq(pet_grooming, LAMBDA r : NeedsGrooming(r, target_days))
        pets_overdue_grooming ==
            SelectSeq(pet_grooming, LAMBDA r : OverdueGrooming(r, alert_days))
        dates == SortedSeq({r.date : r \in Range(grooming_df)})
        Daily(date) ==
            LET rs == SelectSeq(grooming_df, LAMBDA r : r.date = date)
            IN  [date |-> date,
                 grooming_sessions |-> Len(rs),
                 total_minutes |-> SumOver(rs, LAMBDA r : r.duration_minutes),
                 avg_duration |-> MeanOver(rs, LAMBDA r : r.duration_minutes),
                 staff_involved |-> Cardinality({r.staff_id : r \in Range(rs)})]
    IN  IF EmptyCheck(grooming_df)
        THEN [kind |-> "mapping", error |-> "No grooming data found for the specified period"]
        ELSE
        [kind |-> "mapping",
         total_grooming_sessions |-> Len(grooming_df),
         pets_groomed |-> Len(pet_grooming),
         avg_sessions_per_pet |->
             MeanOver(pet_grooming, LAMBDA r : Num(r.total_grooming_sessions)),
         avg_grooming_duration |-> MeanOver(grooming_df, LAMBDA r : r.duration_minutes),
         pets_needing_grooming |-> Len(pets_needing_grooming),
         pets_overdue_grooming |-> Len(pets_overdue_grooming),
         grooming_schedule_compliance |->
             IF Len(pet_grooming) > 0
             THEN Mul(Sub(Num(1), R(Len(pets_overdue_grooming), Len(pet_grooming))),
                      Num(100))
             ELSE Num(0),
         detailed_per_pet |-> pet_grooming,
         daily_patterns |-> [i \in DOMAIN dates |-> Daily(dates[i])],
         pets_needing_attention |->
             [i \in DOMAIN pets_overdue_grooming |->
                 [pet_id |-> pets_overdue_grooming[i].pet_id,
                  pet_name |-> pets_overdue_grooming[i].pet_name,
                  days_since_last_groom |-> pets_overdue_grooming[i].days_since_last_groom]]]

StaffKeys(rows) == {<<r.staff_id, r.staff_name>> : r \in Range(rows)}

get_staff_performance_analysis(cfg, staff_df, activities_df, instant, days_arg) ==
    IF ~Has(staff_df, {"shift_start"}) THEN Raise("KeyError")
    ELSE
    LET days == WindowDays(days_arg, cfg.ANALYSIS_WINDOWS.medium_term)
        cutoff_date == Cutoff(instant, days)
        recent_staff == SelectSeq(staff_df.rows, LAMBDA r : r.shift_start >= cutoff_date)
        keys == OrderKeys(StaffKeys(recent_staff))
        Performance(key) ==
            LET rs == SelectSeq(recent_staff,
                                LAMBDA r : <<r.staff_id, r.staff_name>> = key)
                rate == Round(MeanOver(rs, LAMBDA r : r.tasks_per_hour), 2)
            IN  [staff_id |-> key[1], staff_name |-> key[2],
                 total_tasks |-> Round(SumOver(rs, LAMBDA r : r.tasks_completed), 2),
                 avg_tasks_per_shift |-> Round(MeanOver(rs, LAMBDA r : r.tasks_completed), 2),
                 total_hours |-> Round(SumOver(rs, LAMBDA r : r.shift_duration_hours), 2),
                 avg_hours_per_shift |->
                     Round(MeanOver(rs, LAMBDA r : r.shift_duration_hours), 2),
                 avg_tasks_per_hour |-> rate,
                 total_shifts |-> Len(rs),
                 performance_rating |-> _rate_staff_performance(cfg, rate)]
        staff_performance == [i \in DOMAIN keys |-> Performance(keys[i])]
        shift_types == {r.shift_type : r \in Range(recent_staff)}
        \* shift_analysis: the mean per (staff, shift type), then the mean of
        \* those per shift type
        ShiftTypeMean(t) ==
            LET ids == SortedSeq({r.staff_id : r \in
                           Range(SelectSeq(recent_staff, LAMBDA r : r.shift_type = t))})
            IN  MeanOver(ids, LAMBDA id :
                    MeanOver(SelectSeq(recent_staff,
                                 LAMBDA r : r.shift_type = t /\ r.staff_id = id),
                             LAMBDA r : r.tasks_per_hour))
        recent_activities ==
            SelectSeq(activities_df.rows, LAMBDA r : r.timestamp >= cutoff_date)
        Combined(row) ==
            LET as == SelectSeq(recent_activities, LAMBDA r : r.staff_id = row.staff_id)
            IN  row @@ [total_activities |-> Len(as),
                        total_activity_minutes |->
                            SumOver(as, LAMBDA r : r.duration_minutes)]
        order == SortDescending(DOMAIN staff_performance,
                                [i \in DOMAIN staff_performance |->
                                    staff_performance[i].avg_tasks_per_hour])
    IN  IF EmptyCheck(recent_staff)
        THEN [kind |-> "mapping", error |-> "No staff data found for the specified period"]
        ELSE IF ~Has(staff_df, {"staff_id", "staff_name", "tasks_completed",
                                "shift_duration_hours", "tasks_per_hour", "shift_type"})
        THEN Raise("KeyError")
        ELSE IF ~Has(activities_df, {"timestamp", "staff_id", "pet_id",
                                     "duration_minutes", "activity_type"})
        THEN Raise("KeyError")
        ELSE
        [kind |-> "mapping",
         total_staff_analyzed |-> Len(staff_performance),
         avg_tasks_per_hour_kennel |->
             MeanOver(staff_performance, LAMBDA r : r.avg_tasks_per_hour),
         top_performers |->
             [i \in 1..(IF Len(order) < 5 THEN Len(order) ELSE 5) |->
                 staff_performance[order[i]]],
         staff_needing_support |->
             SelectSeq(staff_performance,
                       LAMBDA r : r.performance_rating = "below_target"),
         shift_type_performance |-> [t \in shift_types |-> ShiftTypeMean(t)],
         detailed_staff_metrics |->
             [i \in DOMAIN staff_performance |-> Combined(staff_performance[i])],
         performance_distribution |->
             ValueCounts([i \in DOMAIN staff_performance |->
                             staff_performance[i].performance_rating])]

\* line 221
normal_feeding_hours_NoLunch == {7, 8, 17, 18}
normal_feeding_hours == {7, 8, 12, 13, 17, 18}

\* Series.head(3).mean() and Series.tail(3).mean() of the daily counts
HeadMean(counts) == MeanOver(SubSeq(counts, 1, IF Len(counts) < 3 THEN Len(counts) ELSE 3),
                             LAMBDA c : c)
TailMean(counts) == MeanOver(SubSeq(counts, IF Len(counts) > 3 THEN Len(counts) - 2 ELSE 1,
                                    Len(counts)),
                             LAMBDA c : c)

\* groupby('date').size(): one count per date that has a row, in date order
DailyCounts_Reversed(rows) ==
    LET dates == SortedSeq({r.date : r \in Range(rows)})
    IN  [i \in DOMAIN dates |->
            Num(Len(SelectSeq(rows, LAMBDA r : r.date = dates[Len(dates) + 1 - i])))]
DailyCounts(rows) ==
    LET dates == SortedSeq({r.date : r \in Range(rows)})
    IN  [i \in DOMAIN dates |-> Num(Len(SelectSeq(rows, LAMBDA r : r.date = dates[i])))]

get_alert_trends_analysis(cfg, activities_df, instant, days_arg) ==
    IF ~Has(activities_df, {"timestamp", "activity_type", "hour", "date", "pet_id",
                            "pet_name", "staff_id"})
    THEN Raise("KeyError")
    ELSE
    LET days == WindowDays(days_arg, cfg.ANALYSIS_WINDOWS.medium_term)
        cutoff_date == Cutoff(instant, days)
        recent_activities ==
            SelectSeq(activities_df.rows, LAMBDA r : r.timestamp >= cutoff_date)
        health_alerts == SelectSeq(recent_activities, LAMBDA r : r.activity_type = "medical")
        feeding_activities ==
            SelectSeq(recent_activities, LAMBDA r : r.activity_type = "feeding")
        feeding_delays ==
            SelectSeq(feeding_activities, LAMBDA r : r.hour \notin normal_feeding_hours)
        daily_health_alerts == DailyCounts(health_alerts)
        daily_feeding_delays == DailyCounts(feeding_delays)
        \* groupby('hour').size().nlargest(3).to_dict()
        PeakHours(rows) ==
            LET hours == {r.hour : r \in Range(rows)}
                count == [h \in hours |-> Num(Len(SelectSeq(rows, LAMBDA r : r.hour = h)))]
                order == SortDescending(hours, count)
                top == {order[i] : i \in 1..(IF Len(order) < 3 THEN Len(order) ELSE 3)}
            IN  [h \in top |-> count[h].n]
        PetCounts(rows) ==
            [k \in PetKeys(rows) |-> Len(RowsOfPet(rows, k))]
    IN  [kind |-> "mapping",
         total_health_alerts |-> Len(health_alerts),
         total_feeding_delays |-> Len(feeding_delays),
         avg_health_alerts_per_day |-> R(Len(health_alerts), days),
         avg_feeding_delays_per_day |-> R(Len(feeding_delays), days),
         peak_health_alert_hours |-> PeakHours(health_alerts),
         peak_feeding_issue_hours |-> PeakHours(feeding_delays),
         pets_with_frequent_health_alerts |->
             {k \in PetKeys(health_alerts) : PetCounts(health_alerts)[k] > 2},
         pets_with_feeding_issues |->
             {k \in PetKeys(feeding_delays) : PetCounts(feeding_delays)[k] > 1},
         staff_alert_response |->
             [id \in {r.staff_id : r \in Range(health_alerts)} |->
                 Len(SelectSeq(health_alerts, LAMBDA r : r.staff_id = id))],
         daily_health_trend |->
             [d \in {r.date : r \in Range(health_alerts)} |->
                 Len(SelectSeq(health_alerts, LAMBDA r : r.date = d))],
         daily_feeding_trend |->
             [d \in {r.date : r \in Range(feeding_delays)} |->
                 Len(SelectSeq(feeding_delays, LAMBDA r : r.date = d))],
         alert_summary |->
             [health_alerts_trend |->
                  IF Gt(TailMean(daily_health_alerts), HeadMean(daily_health_alerts))
                  THEN "increasing" ELSE "stable",
              feeding_delays_trend |->
                  IF Gt(TailMean(daily_feeding_delays), HeadMean(daily_feeding_delays))
                  THEN "increasing" ELSE "stable"]]

_calculate_staff_score_ZeroDefault(staff_analysis) ==
    IF HasError(staff_analysis) THEN Num(0)
    ELSE LET performance_dist == staff_analysis.performance_distribution
             Get(label) == IF label \in DOMAIN performance_dist
                           THEN performance_dist[label] ELSE 0
             total_staff == Get("excellent") + Get("satisfactory") + Get("below_target")
         IN  IF total_staff = 0 THEN Num(0)
             ELSE LET score == R(Get("excellent") * 100 + Get("satisfactory") * 70,
                                 total_staff)
                  IN  IF Lt(Num(100), score) THEN Num(100) ELSE score
_calculate_staff_score(staff_analysis) ==
    IF HasError(staff_analysis) THEN Num(50)
    ELSE LET performance_dist == staff_analysis.performance_distribution
             Get(label) == IF label \in DOMAIN performance_dist
                           THEN performance_dist[label] ELSE 0
             total_staff == Get("excellent") + Get("satisfactory") + Get("below_target")
         IN  IF total_staff = 0 THEN Num(50)
             ELSE LET score == R(Get("excellent") * 100 + Get("satisfactory") * 70,
                                 total_staff)
                  IN  IF Lt(Num(100), score) THEN Num(100) ELSE score

_calculate_alert_score_CapsSwapped(alert_analysis) ==
    IF HasError(alert_analysis) THEN Num(50)
    ELSE LET health == Mul(alert_analysis.avg_health_alerts_per_day, Num(5))
             feeding == Mul(alert_analysis.avg_feeding_delays_per_day, Num(10))
             health_penalty == IF Lt(health, Num(20)) THEN health ELSE Num(20)
             feeding_penalty == IF Lt(feeding, Num(30)) THEN feeding ELSE Num(30)
             score == Sub(Sub(Num(100), health_penalty), feeding_penalty)
         IN  IF Lt(score, Num(0)) THEN Num(0) ELSE score
_calculate_alert_score(alert_analysis) ==
    IF HasError(alert_analysis) THEN Num(50)
    ELSE LET health == Mul(alert_analysis.avg_health_alerts_per_day, Num(5))
             feeding == Mul(alert_analysis.avg_feeding_delays_per_day, Num(10))
             health_penalty == IF Lt(health, Num(30)) THEN health ELSE Num(30)
             feeding_penalty == IF Lt(feeding, Num(20)) THEN feeding ELSE Num(20)
             score == Sub(Sub(Num(100), health_penalty), feeding_penalty)
         IN  IF Lt(score, Num(0)) THEN Num(0) ELSE score

\* f"Schedule grooming for {n} overdue pets"
GroomingMessage(n) == "Schedule grooming for " \o ToString(n) \o " overdue pets"
\* f"Provide additional training/support to {n} staff members"
StaffMessage(n) ==
    "Provide additional training/support to " \o ToString(n) \o " staff members"

HealthAlertsTooFrequent_Inclusive(alerts) == Ge(alerts.avg_health_alerts_per_day, Num(2))
HealthAlertsTooFrequent(alerts) == Gt(alerts.avg_health_alerts_per_day, Num(2))

_generate_recommendations(grooming, staff, alerts) ==
    LET recommendations ==
            (IF ~HasError(grooming) /\ grooming.pets_overdue_grooming > 0
             THEN <<GroomingMessage(grooming.pets_overdue_grooming)>> ELSE <<>>)
            \o (IF ~HasError(staff) /\ Len(staff.staff_needing_support) > 0
                THEN <<StaffMessage(Len(staff.staff_needing_support))>>
                ELSE <<>>)
            \o (IF ~HasError(alerts) /\ HealthAlertsTooFrequent(alerts)
                THEN <<"Review health monitoring protocols - high alert frequency detected">>
                ELSE <<>>)
            \o (IF ~HasError(alerts) /\ Gt(alerts.avg_feeding_delays_per_day, Num(1))
                THEN <<"Optimize feeding schedules to reduce delays">> ELSE <<>>)
    IN  IF recommendations = <<>>
        THEN <<"Operations are running smoothly - maintain current standards">>
        ELSE recommendations

\* grooming_analysis.get('grooming_schedule_compliance', 0)
GroomingScore_FiftyDefault(grooming_analysis) ==
    IF HasError(grooming_analysis) THEN Num(50)
    ELSE grooming_analysis.grooming_schedule_compliance
GroomingScore(grooming_analysis) ==
    IF HasError(grooming_analysis) THEN Num(0)
    ELSE grooming_analysis.grooming_schedule_compliance

\* the summary built from the three analyses (lines 266-281)
OperationsSummaryOf(grooming_analysis, staff_analysis, alert_analysis) ==
    IF grooming_analysis.kind = "raise" THEN grooming_analysis
    ELSE IF staff_analysis.kind = "raise" THEN staff_analysis
    ELSE IF alert_analysis.kind = "raise" THEN alert_analysis
    ELSE
    LET grooming_score == GroomingScore(grooming_analysis)
        staff_score == _calculate_staff_score(staff_analysis)
        alert_score == _calculate_alert_score(alert_analysis)
        overall_score == Div(Add(Add(grooming_score, staff_score), alert_score), Num(3))
    IN  [kind |-> "mapping",
         operations_score |-> Round(overall_score, 1),
         grooming_operations |-> grooming_analysis,
         staff_performance |-> staff_analysis,
         alert_management |-> alert_analysis,
         key_recommendations |->
             _generate_recommendations(grooming_analysis, staff_analysis,
                                       alert_analysis)]

get_operations_summary(cfg, staff_df, activities_df, instant) ==
    OperationsSummaryOf(
        get_grooming_cleaning_frequency(cfg, activities_df, instant, 0),
        get_staff_performance_analysis(cfg, staff_df, activities_df, instant, 0),
        get_alert_trends_analysis(cfg, activities_df, instant, 0))

-----------------------------------------------------------------------------
(* The state before a run, and the inputs of the runs *)

NoTables ==
    [pet_activities |-> EmptyFrame, environment |-> EmptyFrame,
     staff_logs |-> EmptyFrame, daily_summary |-> EmptyFrame]

NoAnalyzers ==
    [pet |-> EmptyFrame, env |-> EmptyFrame, staff |-> EmptyFrame, activities |-> EmptyFrame]

NoCall == [method |-> "none"]

\* the database before the first load: no table holds a row
NoDatabase ==
    [pet_activities |-> <<>>, environment |-> <<>>,
     staff_logs |-> <<>>, daily_summary |-> <<>>]

\* no pipeline run has started
NoRun == [steps |-> <<>>, load_results |-> <<>>, quality |-> "none",
          returned |-> "none", log |-> "none", runs |-> 0]

\* hour h of day d
H(d, h) == d * 24 + h

MaxRows == 2

SeqsUpTo(S, n) == UNION {[1..k -> S] : k \in 0..n}

\* pd.read_csv: the rows get the index 0, 1, ...
CsvFrame(fields, rows) ==
    [cols |-> fields, rows |-> [i \in DOMAIN rows |-> rows[i] @@ [idx |-> i - 1]]]

Activity(pet, type, t, dur, staff, notes) ==
    [pet_id |-> pet, pet_name |-> IF pet = 1 THEN "Rex" ELSE "Luna",
     activity_type |-> type, timestamp |-> t, duration_minutes |-> dur,
     staff_id |-> staff, notes |-> notes]

Reading(t, section, temp, hum, noise) ==
    [timestamp |-> t, kennel_section |-> section, temperature_f |-> temp,
     humidity_percent |-> hum, noise_level_db |-> noise]

Shift(staff, start, end, tasks) ==
    [staff_id |-> staff, staff_name |-> IF staff = 1 THEN "Ana" ELSE "Bo",
     shift_start |-> start, shift_end |-> end, tasks_completed |-> tasks]

RawData(acts, envs, shifts) ==
    [pet_activities |-> acts,
     environment |-> CsvFrame(EnvironmentFields, envs),
     staff_logs |-> CsvFrame(StaffFields, shifts)]

\* activity files whose durations are good, zero, negative, spelled or broken
DurationCells == {Num(30), Num(0), Num(-5), NumStr(45), BadStr, NaN}
RawActivitiesT ==
    {Activity(1, type, H(1, 9), dur, 1, "") :
        type \in {"feeding", "Feeding "}, dur \in DurationCells}

\* environment files with broken or missing measurements
RawReadingsT ==
    {Reading(H(1, 9), "A", temp, hum, noise) :
        temp \in {Num(70), NumStr(90), BadStr, NaN},
        hum \in {Num(50), BadStr}, noise \in {Num(42), NaN}}

\* staff files with zero-length and backwards shifts and broken task counts
RawShiftsT ==
    {Shift(1, H(1, 9), end, tasks) :
        end \in {H(1, 9), H(1, 17), H(1, 8)},
        tasks \in {Num(10), Num(0), Num(-1), BadStr}}

\* clean files whose rows fall on different dates
DatedActivities == {Activity(pet, "play", H(d, 9), Num(30), 1, "") : pet \in {1, 2}, d \in {1, 2}}
DatedReadings == {Reading(H(d, 9), "A", Num(70), Num(50), Num(42)) : d \in {1, 3}}
DatedShifts == {Shift(1, H(d, 9), H(d, 17), Num(5)) : d \in {2, 3}}

RawInputsT ==
    {RawData(a, <<>>, <<>>) : a \in SeqsUpTo(RawActivitiesT, MaxRows)}
    \cup {RawData(<<>>, e, <<>>) : e \in SeqsUpTo(RawReadingsT, MaxRows)}
    \cup {RawData(<<>>, <<>>, s) : s \in SeqsUpTo(RawShiftsT, MaxRows)}
    \cup {RawData(a, e, s) : a \in SeqsUpTo(DatedActivities, MaxRows),
                             e \in SeqsUpTo(DatedReadings, MaxRows),
                             s \in SeqsUpTo(DatedShifts, MaxRows)}

-----------------------------------------------------------------------------
(* The transformation step of a run, src/main.py lines 85 *)

InitT ==
    /\ raw \in RawInputsT
    /\ tables = NoTables
    /\ pc = "extracted"
    /\ config = Config
    /\ an = NoAnalyzers
    /\ now = 0
    /\ kept = NoCall
    /\ db = NoDatabase
    /\ run = NoRun

TransformAllData ==
    /\ pc = "extracted"
    /\ tables' = transform_all_data(raw)
    /\ pc' = "transformed"
    /\ UNCHANGED <<raw, config, an, now, kept, db, run>>

NextT == TransformAllData

SpecT == InitT /\ [][NextT]_vars

-----------------------------------------------------------------------------
(* The analyzers at work, as src/dashboard/app_enhanced.py lines 82-279 use
   them: constructed from the transformed tables, then queried *)

MaxActs == 2

\* the instants at which the clock is read, and the `days` arguments (0: None)
Instants == {H(36, 12), H(40, 12)}
DaysArgs == {0, 3}

\* activities inside and outside the windows, in the order of their timestamps
RawActivitiesA ==
    {Activity(1, "grooming", H(8, 9), Num(30), 1, ""),
     Activity(1, "grooming", H(35, 9), Num(30), 1, ""),
     Activity(1, "feeding", H(35, 9), Num(30), 1, "")}
ActivityLogsA ==
    {x \in SeqsUpTo(RawActivitiesA, MaxActs) :
        \A i \in 1..(Len(x) - 1) : x[i].timestamp <= x[i + 1].timestamp}

\* sensor files and shift files: empty, one old line, one recent line
ReadingLogsA ==
    {<<>>, <<Reading(H(8, 9), "A", Num(70), Num(50), Num(48))>>,
     <<Reading(H(35, 9), "A", Num(70), Num(50), Num(48))>>}
ShiftLogsA ==
    {<<>>, <<Shift(1, H(8, 9), H(8, 17), Num(10))>>,
     <<Shift(1, H(35, 9), H(35, 17), Num(10))>>}

RawInputsA ==
    {RawData(a, e, w) : a \in ActivityLogsA, e \in ReadingLogsA, w \in ShiftLogsA}

InitA ==
    /\ raw \in RawInputsA
    /\ tables = NoTables
    /\ pc = "extracted"
    /\ config = Config
    /\ an = NoAnalyzers
    /\ now = H(36, 12)
    /\ kept = NoCall
    /\ db = NoDatabase
    /\ run = NoRun

\* the snapshots the three constructors take
Constructed(t) ==
    [pet |-> PetWellnessAnalyzer(t.pet_activities),
     env |-> EnvironmentalAnalyzer(t.environment),
     staff |-> OperationsAnalyzerStaff(t.staff_logs),
     activities |-> OperationsAnalyzerActivities(t.pet_activities)]

Construct ==
    /\ pc = "transformed"
    /\ an' = Constructed(tables)
    /\ pc' = "analysing"
    /\ UNCHANGED <<raw, tables, config, now, kept, db, run>>

\* datetime.now() moves on between two calls
Tick ==
    /\ pc = "analysing"
    /\ \E t \in Instants : t > now /\ now' = t
    /\ UNCHANGED <<raw, tables, pc, config, an, kept, db, run>>

PetMethods ==
    {"get_avg_activity_time_per_pet", "get_feeding_frequency_analysis",
     "get_weight_trend_analysis", "get_pet_wellness_summary"}
EnvMethods ==
    {"get_temperature_humidity_averages", "get_noise_level_alerts",
     "get_temperature_activity_correlation", "get_environmental_summary"}
OpsMethods ==
    {"get_grooming_cleaning_frequency", "get_staff_performance_analysis",
     "get_alert_trends_analysis", "get_operations_summary"}

\* the snapshots after a call of m: every method filters self.df into a local
\* copy (`self.df[...].copy()`) and only writes to that copy
SelfAfter_Narrowed(m, a, cfg, instant, days) ==
    IF m = "get_noise_level_alerts" /\ Has(a.env, {"timestamp"})
    THEN [a EXCEPT !.env.rows =
             SelectSeq(@, LAMBDA r : r.timestamp >=
                 Cutoff(instant, WindowDays(days, cfg.ANALYSIS_WINDOWS.short_term)))]
    ELSE a
SelfAfter(m, a, cfg, instant, days) == a

\* the tables of the caller after a call of m
TablesAfter(m, t, option) ==
    IF m = "get_temperature_activity_correlation"
       \/ (m = "get_environmental_summary" /\ option)
    THEN [t EXCEPT !.pet_activities = PassedTableAfter(@)]
    ELSE t

\* one call of method m that returns `result`; the caller keeps the result or
\* drops it
Call(m, days, option, result) ==
    /\ pc = "analysing"
    /\ \E keep \in BOOLEAN :
           kept' = IF keep
                   THEN [method |-> m, days |-> days, option |-> option, at |-> now,
                         result |-> result]
                   ELSE kept
    /\ an' = SelfAfter(m, an, config, now, days)
    /\ tables' = TablesAfter(m, tables, option)
    /\ UNCHANGED <<raw, pc, config, now, db, run>>

GetAvgActivityTimePerPet ==
    \E days \in DaysArgs :
        Call("get_avg_activity_time_per_pet", days, TRUE,
             get_avg_activity_time_per_pet(config, an.pet, now, days))
GetFeedingFrequencyAnalysis ==
    \E days \in DaysArgs :
        Call("get_feeding_frequency_analysis", days, TRUE,
             get_feeding_frequency_analysis(config, an.pet, now, days))
GetWeightTrendAnalysis ==
    \E days \in DaysArgs :
        Call("get_weight_trend_analysis", days, TRUE,
             get_weight_trend_analysis(config, an.pet, now, days))
GetPetWellnessSummary ==
    Call("get_pet_wellness_summary", 0, TRUE,
         get_pet_wellness_summary(config, an.pet, now))
GetTemperatureHumidityAverages ==
    \E days \in DaysArgs, by_section \in BOOLEAN :
        Call("get_temperature_humidity_averages", days, by_section,
             get_temperature_humidity_averages(config, an.env, now, days, by_section))
GetNoiseLevelAlerts ==
    \E days \in DaysArgs :
        Call("get_noise_level_alerts", days, TRUE,
             get_noise_level_alerts(config, an.env, now, days))
GetTemperatureActivityCorrelation ==
    \E days \in DaysArgs :
        Call("get_temperature_activity_correlation", days, TRUE,
             get_temperature_activity_correlation(config, an.env, tables.pet_activities,
                                                  now, days))
GetEnvironmentalSummary ==
    \E given \in BOOLEAN :
        Call("get_environmental_summary", 0, given,
             get_environmental_summary(config, an.env, given, tables.pet_activities, now))
GetGroomingCleaningFrequency ==
    \E days \in DaysArgs :
        Call("get_grooming_cleaning_frequency", days, TRUE,
             get_grooming_cleaning_frequency(config, an.activities, now, days))
GetStaffPerformanceAnalysis ==
    \E days \in DaysArgs :
        Call("get_staff_performance_analysis", days, TRUE,
             get_staff_performance_analysis(config, an.staff, an.activities, now, days))
GetAlertTrendsAnalysis ==
    \E days \in DaysArgs :
        Call("get_alert_trends_analysis", days, TRUE,
             get_alert_trends_analysis(config, an.activities, now, days))
GetOperationsSummary ==
    Call("get_operations_summary", 0, TRUE,
         get_operations_summary(config, an.staff, an.activities, now))

NextA ==
    \/ TransformAllData
    \/ Construct
    \/ Tick
    \/ GetAvgActivityTimePerPet
    \/ GetFeedingFrequencyAnalysis
    \/ GetWeightTrendAnalysis
    \/ GetPetWellnessSummary
    \/ GetTemperatureHumidityAverages
    \/ GetNoiseLevelAlerts
    \/ GetTemperatureActivityCorrelation
    \/ GetEnvironmentalSummary
    \/ GetGroomingCleaningFrequency
    \/ GetStaffPerformanceAnalysis
    \/ GetAlertTrendsAnalysis
    \/ GetOperationsSummary

SpecA == InitA /\ [][NextA]_vars

-----------------------------------------------------------------------------
(* The pipeline transform_pet_activities, then PetWellnessAnalyzer *)

MaxDays == 3

\* what one day's log holds: <<pet, minutes>> of each record
DayEntries == {<<1, 0>>, <<1, 30>>, <<1, 45>>, <<1, 200>>, <<2, 30>>}
DayOptions ==
    {<<>>} \cup {<<x>> : x \in DayEntries}
           \cup {<< <<1, 30>>, <<1, 30>> >>, << <<1, 45>>, <<2, 30>> >>}

DayLog(option, day) ==
    [i \in DOMAIN option |->
        Activity(option[i][1], "play", H(32 + day, 9), Num(option[i][2]), 1, "")]

RECURSIVE LogsOfDays(_)
\* the activity logs of the days 1..n
LogsOfDays(n) ==
    IF n = 0 THEN {<<>>}
    ELSE {l \o DayLog(option, n) : l \in LogsOfDays(n - 1), option \in DayOptions}

InitP ==
    /\ raw \in {RawData(a, <<>>, <<>>) : a \in LogsOfDays(MaxDays)}
    /\ tables = NoTables
    /\ pc = "extracted"
    /\ config = Config
    /\ an = NoAnalyzers
    /\ now = H(36, 12)
    /\ kept = NoCall
    /\ db = NoDatabase
    /\ run = NoRun

NextP ==
    \/ TransformAllData
    \/ Construct
    \/ GetAvgActivityTimePerPet

SpecP == InitP /\ [][NextP]_vars

-----------------------------------------------------------------------------
(* The pipeline transform_staff_logs, then OperationsAnalyzer *)

MaxStaffRows == 2

\* shifts as <<start, hours, tasks>>: rates 1.25, 8/7, 1.2, 0.8, 0.75, a
\* zero-length shift with and without tasks, and a shift before the window
ShiftCases ==
    {<<H(35, 9), 8, 10>>, <<H(35, 9), 7, 8>>, <<H(35, 9), 10, 12>>, <<H(35, 9), 10, 8>>,
     <<H(35, 9), 8, 6>>, <<H(35, 9), 0, 5>>, <<H(35, 9), 0, 0>>, <<H(1, 9), 8, 6>>}
RawShiftsS ==
    {Shift(staff, c[1], c[1] + c[2], Num(c[3])) : staff \in {1, 2}, c \in ShiftCases}

InitS ==
    /\ raw \in {RawData(<<Activity(1, "grooming", H(35, 9), Num(30), 1, "")>>, <<>>, w) :
                   w \in SeqsUpTo(RawShiftsS, MaxStaffRows)}
    /\ tables = NoTables
    /\ pc = "extracted"
    /\ config = Config
    /\ an = NoAnalyzers
    /\ now = H(36, 12)
    /\ kept = NoCall
    /\ db = NoDatabase
    /\ run = NoRun

NextS ==
    \/ TransformAllData
    \/ Construct
    \/ GetStaffPerformanceAnalysis
    \/ GetOperationsSummary

SpecS == InitS /\ [][NextS]_vars

-----------------------------------------------------------------------------
(* The rating helpers of EnvironmentalAnalyzer, applied to window means *)

\* means below, at, between and above the band ends, and the mean of an empty
\* window
TemperatureMeans ==
    {NaN, Num(59), Num(60), Num(65), Num(68), Num(78), Num(80), Num(85), Num(90)}
HumidityMeans == {NaN, Num(29), Num(30), Num(40), Num(60), Num(70), Num(80), Num(81)}
NoiseMeans == {NaN, Num(39), Num(40), R(81, 2), Num(45), Num(46), Num(50), Num(51)}

\* the shipped thresholds, and an edited config.py
NarrowBands ==
    [temperature |-> [optimal_min |-> Num(65), optimal_max |-> Num(80),
                      alert_min |-> Num(60), alert_max |-> Num(85)],
     humidity |-> [optimal_min |-> Num(40), optimal_max |-> Num(70),
                   alert_min |-> Num(30), alert_max |-> Num(80)],
     noise |-> [normal_max |-> Num(39), alert_threshold |-> Num(46),
                critical_threshold |-> Num(50)]]
EnvironmentConfigs == {Config, [Config EXCEPT !.ENVIRONMENT = NarrowBands]}

\* raw holds the overall statistics the helpers are given
InitE ==
    /\ raw \in [avg_temperature : TemperatureMeans, avg_humidity : HumidityMeans,
                avg_noise : NoiseMeans]
    /\ tables = NoTables
    /\ pc = "analysing"
    /\ config \in EnvironmentConfigs
    /\ an = NoAnalyzers
    /\ now = H(36, 12)
    /\ kept = NoCall
    /\ db = NoDatabase
    /\ run = NoRun

\* a helper has been applied and its value kept
Apply(m, result) ==
    /\ pc = "analysing"
    /\ kept' = [method |-> m, days |-> 0, option |-> TRUE, at |-> now, result |-> result]
    /\ UNCHANGED <<raw, tables, pc, config, an, now, db, run>>

CalculateComfortScore ==
    Apply("_calculate_comfort_score", _calculate_comfort_score(config, raw))
RateTemperatureComfort ==
    Apply("_rate_temperature_comfort", _rate_temperature_comfort(config, raw.avg_temperature))
RateHumidityComfort ==
    Apply("_rate_humidity_comfort", _rate_humidity_comfort(config, raw.avg_humidity))
CategorizeNoiseLevel ==
    Apply("_categorize_noise_level", _categorize_noise_level(config, raw.avg_noise))

NextE ==
    \/ CalculateComfortScore
    \/ RateTemperatureComfort
    \/ RateHumidityComfort
    \/ CategorizeNoiseLevel

SpecE == InitE /\ [][NextE]_vars

-----------------------------------------------------------------------------
(* The grooming analysis under edited grooming thresholds *)

MaxGroomRows == 3

\* the last grooming of a pet was 1, 8 or 12 days before the analysis
GroomingStamps == {H(35, 9), H(28, 9), H(24, 9)}
RawGroomingsG ==
    {Activity(pet, "grooming", t, Num(30), 1, "") : pet \in {1, 2, 3}, t \in GroomingStamps}

\* <<target_days_between, alert_days_overdue>>: as shipped, equal, inverted,
\* far apart
GroomingDays == {<<7, 10>>, <<8, 8>>, <<10, 7>>, <<1, 11>>}
GroomingConfigs ==
    {[Config EXCEPT !.OPERATIONS.grooming_frequency =
          [target_days_between |-> g[1], alert_days_overdue |-> g[2]]] : g \in GroomingDays}

InitG ==
    /\ raw \in {RawData(a, <<>>, <<>>) : a \in SeqsUpTo(RawGroomingsG, MaxGroomRows)}
    /\ tables = NoTables
    /\ pc = "extracted"
    /\ config \in GroomingConfigs
    /\ an = NoAnalyzers
    /\ now = H(36, 12)
    /\ kept = NoCall
    /\ db = NoDatabase
    /\ run = NoRun

NextG ==
    \/ TransformAllData
    \/ Construct
    \/ GetGroomingCleaningFrequency

SpecG == InitG /\ [][NextG]_vars

-----------------------------------------------------------------------------
(* The operations scores over a day of alerts *)

MaxAlerts == 7
MaxDelays == 3

\* windows of the alert analysis: the default, and the last day
AlertWindows == {0, 1}

Repeat(x, n) == [i \in 1..n |-> x]

\* grooming records: none, one pet groomed yesterday, one pet groomed 12 days
\* ago, and both
GroomingLogsO ==
    {<<>>,
     <<Activity(1, "grooming", H(35, 9), Num(30), 1, "")>>,
     <<Activity(2, "grooming", H(24, 9), Num(30), 1, "")>>,
     <<Activity(2, "grooming", H(24, 9), Num(30), 1, ""),
       Activity(1, "grooming", H(35, 9), Num(30), 1, "")>>}

\* a medical record before every window, a feeding at a normal hour, then `health`
\* medical records and `delays` feedings at 10:00 in the last day
AlertLog(old, normal, health, delays) ==
    Repeat(Activity(1, "medical", H(1, 9), Num(15), 1, ""), old)
    \o Repeat(Activity(1, "feeding", H(36, 8), Num(10), 1, ""), normal)
    \o Repeat(Activity(1, "medical", H(36, 9), Num(15), 1, ""), health)
    \o Repeat(Activity(2, "feeding", H(36, 10), Num(10), 1, ""), delays)

ActivityLogsO ==
    {g \o AlertLog(old, normal, health, delays) :
        g \in GroomingLogsO, old \in 0..1, normal \in 0..1,
        health \in 0..MaxAlerts, delays \in 0..MaxDelays}

\* no shift file, shifts before the window, and members rated excellent,
\* satisfactory and below target
ShiftLogsO ==
    {<<>>,
     <<Shift(1, H(1, 9), H(1, 17), Num(10))>>,
     <<Shift(1, H(35, 9), H(35, 17), Num(10))>>,
     <<Shift(1, H(35, 9), H(35, 17), Num(8))>>,
     <<Shift(1, H(35, 9), H(35, 17), Num(10)), Shift(2, H(35, 9), H(35, 17), Num(4))>>}

InitO ==
    /\ raw \in {RawData(a, <<>>, w) : a \in ActivityLogsO, w \in ShiftLogsO}
    /\ tables = NoTables
    /\ pc = "extracted"
    /\ config = Config
    /\ an = NoAnalyzers
    /\ now = H(36, 12)
    /\ kept = NoCall
    /\ db = NoDatabase
    /\ run = NoRun

\* the score of an alert analysis, as get_operations_summary computes it
AlertScoreOf(alert_analysis) ==
    IF alert_analysis.kind = "raise" THEN alert_analysis
    ELSE _calculate_alert_score(alert_analysis)

CalculateAlertScore ==
    \E days \in AlertWindows :
        Call("_calculate_alert_score", days, TRUE,
             AlertScoreOf(get_alert_trends_analysis(config, an.activities, now, days)))

NextO ==
    \/ TransformAllData
    \/ Construct
    \/ CalculateAlertScore
    \/ GetOperationsSummary

SpecO == InitO /\ [][NextO]_vars

-----------------------------------------------------------------------------
(* The recommendations of the operations summary *)

\* config.py as shipped, and edited: a medium window of 2 days, and grooming
\* due and overdue after a day
WindowConfigs ==
    {Config,
     [Config EXCEPT !.ANALYSIS_WINDOWS.medium_term = 2,
                    !.OPERATIONS.grooming_frequency =
                        [target_days_between |-> 0, alert_days_overdue |-> 0]]}

\* alerts in the last day: none, and the numbers at and just above the rates of
\* 2 health alerts and 1 feeding delay per day of the short window
HealthCountsR == {0, 4, 5}
DelayCountsR == {0, 2, 3}

ActivityLogsR ==
    {g \o AlertLog(0, normal, health, delays) :
        g \in GroomingLogsO, normal \in 0..1, health \in HealthCountsR,
        delays \in DelayCountsR}

InitR ==
    /\ raw \in {RawData(a, <<>>, w) : a \in ActivityLogsR, w \in ShiftLogsO}
    /\ tables = NoTables
    /\ pc = "extracted"
    /\ config \in WindowConfigs
    /\ an = NoAnalyzers
    /\ now = H(36, 12)
    /\ kept = NoCall
    /\ db = NoDatabase
    /\ run = NoRun

NextR ==
    \/ TransformAllData
    \/ Construct
    \/ GetOperationsSummary

SpecR == InitR /\ [][NextR]_vars

-----------------------------------------------------------------------------
(* The wellness summary over two pets *)

\* a pet's play: none, 90 minutes before every window, and 30, 90 or 200
\* minutes yesterday
PlayOptions == {"none", "old", "short", "medium", "long"}
PlayLog(pet, option) ==
    CASE option = "none" -> <<>>
      [] option = "old" -> <<Activity(pet, "play", H(1, 10), Num(90), 1, "")>>
      [] option = "short" -> <<Activity(pet, "play", H(35, 10), Num(30), 1, "")>>
      [] option = "medium" -> <<Activity(pet, "play", H(35, 10), Num(90), 1, "")>>
      [] option = "long" -> <<Activity(pet, "play", H(35, 10), Num(200), 1, "")>>

\* a pet's feedings of 10 minutes yesterday: none, one, two or five
FeedingCounts == {0, 1, 2, 5}
FeedingLog(pet, count) == Repeat(Activity(pet, "feeding", H(35, 8), Num(10), 1, ""), count)

ActivityLogsW ==
    {PlayLog(1, p1) \o PlayLog(2, p2) \o FeedingLog(1, f1) \o FeedingLog(2, f2) :
        p1 \in PlayOptions, p2 \in PlayOptions, f1 \in FeedingCounts, f2 \in FeedingCounts}

InitW ==
    /\ raw \in {RawData(a, <<>>, <<>>) : a \in ActivityLogsW}
    /\ tables = NoTables
    /\ pc = "extracted"
    /\ config = Config
    /\ an = NoAnalyzers
    /\ now = H(36, 12)
    /\ kept = NoCall
    /\ db = NoDatabase
    /\ run = NoRun

NextW ==
    \/ TransformAllData
    \/ Construct
    \/ GetPetWellnessSummary

SpecW == InitW /\ [][NextW]_vars

-----------------------------------------------------------------------------
(* The noise alerts over a sensor file *)

MaxReadings == 3

\* readings inside and outside the window of a week, with noise on and just above
\* the thresholds, and without a noise value
RawReadingsN ==
    {Reading(t, "A", Num(70), Num(50), noise) :
        t \in {H(35, 9), H(20, 9)},
        noise \in {Num(45), Num(46), Num(50), Num(51), NaN}}

InitN ==
    /\ raw \in {RawData(<<>>, e, <<>>) : e \in SeqsUpTo(RawReadingsN, MaxReadings)}
    /\ tables = NoTables
    /\ pc = "extracted"
    /\ config \in EnvironmentConfigs
    /\ an = NoAnalyzers
    /\ now = H(36, 12)
    /\ kept = NoCall
    /\ db = NoDatabase
    /\ run = NoRun

NextN ==
    \/ TransformAllData
    \/ Construct
    \/ GetNoiseLevelAlerts

SpecN == InitN /\ [][NextN]_vars

-----------------------------------------------------------------------------
(* The alert analysis over feedings at different hours *)

MaxAlertRows == 3

\* yesterday's feedings at and around the normal hours, medical records and play
\* at other hours, and a late feeding before every window
RawActivitiesF ==
    {Activity(1, "feeding", H(35, h), Num(10), 1, "") : h \in {6, 7, 8, 12, 13, 17, 18, 19}}
    \cup {Activity(2, "medical", H(35, h), Num(15), 1, "") : h \in {8, 9}}
    \cup {Activity(2, "play", H(35, 9), Num(30), 1, ""),
          Activity(1, "feeding", H(1, 9), Num(10), 1, "")}

InitF ==
    /\ raw \in {RawData(a, <<>>, <<>>) : a \in SeqsUpTo(RawActivitiesF, MaxAlertRows)}
    /\ tables = NoTables
    /\ pc = "extracted"
    /\ config = Config
    /\ an = NoAnalyzers
    /\ now = H(36, 12)
    /\ kept = NoCall
    /\ db = NoDatabase
    /\ run = NoRun

NextF ==
    \/ TransformAllData
    \/ Construct
    \/ GetAlertTrendsAnalysis

SpecF == InitF /\ [][NextF]_vars

-----------------------------------------------------------------------------
(* The alert trends over five days *)

MaxPerDay == 2

\* the days 31..35 before the analysis of day 36
TrendDays == <<31, 32, 33, 34, 35>>

\* per_day[i] alerts of one category on the i-th day: medical records, or
\* feedings at 10:00
AlertOn(category, day) ==
    IF category = "health"
    THEN Activity(1, "medical", H(day, 9), Num(15), 1, "")
    ELSE Activity(1, "feeding", H(day, 10), Num(10), 1, "")

RECURSIVE TrendLog(_, _, _)
TrendLog(category, per_day, i) ==
    IF i > Len(TrendDays) THEN <<>>
    ELSE Repeat(AlertOn(category, TrendDays[i]), per_day[i])
         \o TrendLog(category, per_day, i + 1)

ActivityLogsD ==
    {TrendLog(category, per_day, 1) :
        category \in {"health", "feeding"},
        per_day \in [DOMAIN TrendDays -> 0..MaxPerDay]}

InitD ==
    /\ raw \in {RawData(a, <<>>, <<>>) : a \in ActivityLogsD}
    /\ tables = NoTables
    /\ pc = "extracted"
    /\ config = Config
    /\ an = NoAnalyzers
    /\ now = H(36, 12)
    /\ kept = NoCall
    /\ db = NoDatabase
    /\ run = NoRun

NextD ==
    \/ TransformAllData
    \/ Construct
    \/ GetAlertTrendsAnalysis

SpecD == InitD /\ [][NextD]_vars

-----------------------------------------------------------------------------
(* The comfort summary of tables with and without the transformer's labels *)

MaxComfortRows == 2

RawReadingsC ==
    {Reading(H(35, 9), "A", temp, hum, noise) :
        temp \in {Num(64), Num(70), Num(80), Num(90)},
        hum \in {Num(50), Num(70)}, noise \in {Num(30), Num(48)}}

InitC ==
    /\ raw \in {RawData(<<>>, e, <<>>) : e \in SeqsUpTo(RawReadingsC, MaxComfortRows)}
    /\ tables = NoTables
    /\ pc = "extracted"
    /\ config = Config
    /\ an = NoAnalyzers
    /\ now = H(36, 12)
    /\ kept = NoCall
    /\ db = NoDatabase
    /\ run = NoRun

ComfortColumns == {"temp_comfort", "humidity_comfort", "noise_comfort"}

\* the same table as it is before the labels are attached (transform.py line 76)
WithoutComfort(df) ==
    [cols |-> df.cols \ ComfortColumns,
     rows |-> [i \in DOMAIN df.rows |->
                  [f \in DOMAIN df.rows[i] \ ComfortColumns |-> df.rows[i][f]]]]

\* the environmental analyzer is given the table without the labels
ConstructWithoutLabels ==
    /\ pc = "transformed"
    /\ an' = [Constructed(tables) EXCEPT
                 !.env = EnvironmentalAnalyzer(WithoutComfort(tables.environment))]
    /\ pc' = "analysing"
    /\ UNCHANGED <<raw, tables, config, now, kept, db, run>>

NextC ==
    \/ TransformAllData
    \/ Construct
    \/ ConstructWithoutLabels
    \/ GetTemperatureHumidityAverages

SpecC == InitC /\ [][NextC]_vars

-----------------------------------------------------------------------------
(* The pipeline: run_etl_pipeline of src/main.py with DataExtractor of     *)
(* src/etl/extract.py and DataLoader of src/etl/load.py.  A run is         *)
(* followed step by step; run.steps lists the steps it has started, and    *)
(* the database outlives the run.                                          *)

MaxRuns == 2
MaxFailures == 1

\* bool(v) of a list: true when it has an item
ListTruth(items) == IF items # <<>> THEN "True" ELSE "False"

\* bool(v) of a DataFrame: pandas raises ValueError, on an empty frame too
FrameTruth(df) == "ValueError"

\* any(iterable): the truth of the items one after the other, up to the
\* first true one
RECURSIVE AnyOf(_)
AnyOf(truths) ==
    IF truths = <<>> THEN "False"
    ELSE IF Head(truths) = "False" THEN AnyOf(Tail(truths))
    ELSE Head(truths)

\* any(raw_data.values()): the activity list, then the two DataFrames, in
\* the order in which extract_all_data fills the dictionary
AnyValues(raw_data) ==
    AnyOf(<<ListTruth(raw_data.pet_activities),
            FrameTruth(raw_data.environment),
            FrameTruth(raw_data.staff_logs)>>)

\* what the three files of a run may hold: nothing, one line, and an
\* activity file whose only line has no usable duration
ExtractedActivities ==
    {<<>>, <<Activity(1, "feeding", H(1, 9), Num(30), 1, "")>>,
     <<Activity(2, "play", H(2, 9), Num(45), 1, "")>>,
     <<Activity(1, "play", H(1, 9), Num(0), 1, "")>>}
ExtractedReadings == {<<>>, <<Reading(H(1, 9), "A", Num(70), Num(50), Num(42))>>}
ExtractedShifts == {<<>>, <<Shift(1, H(1, 9), H(1, 17), Num(5))>>}

ExtractedInputs ==
    {RawData(a, e, s) :
        a \in ExtractedActivities, e \in ExtractedReadings, s \in ExtractedShifts}

InitM ==
    /\ raw = RawData(<<>>, <<>>, <<>>)
    /\ tables = NoTables
    /\ pc = "idle"
    /\ config = Config
    /\ an = NoAnalyzers
    /\ now = 0
    /\ kept = NoCall
    /\ db = NoDatabase
    /\ run = NoRun

\* step 1: extractor.extract_all_data()
ExtractAllData ==
    /\ pc = "idle"
    /\ run.runs < MaxRuns
    /\ raw' \in ExtractedInputs
    /\ run' = [NoRun EXCEPT !.steps = <<"extract">>, !.runs = run.runs + 1]
    /\ pc' = "check"
    /\ UNCHANGED <<tables, config, an, now, kept, db>>

\* the check of the extracted data, and the handler of the exception it raises
CheckExtracted ==
    /\ pc = "check"
    /\ LET outcome == AnyValues(raw)
       IN  IF outcome = "True"
           THEN /\ pc' = "transform"
                /\ run' = run
           ELSE /\ pc' = "idle"
                /\ run' = [run EXCEPT
                       !.returned = "False",
                       !.log = IF outcome = "False"
                               THEN "No data extracted. Check if data files exist and are readable."
                               ELSE "ETL Pipeline failed with error"]
    /\ UNCHANGED <<raw, tables, config, an, now, kept, db>>

\* step 2: transformer.transform_all_data(raw_data)
TransformExtracted ==
    /\ pc = "transform"
    /\ tables' = transform_all_data(raw)
    /\ run' = [run EXCEPT !.steps = Append(@, "transform")]
    /\ pc' = "load"
    /\ UNCHANGED <<raw, config, an, now, kept, db>>

DatasetNames == <<"pet_activities", "environment", "staff_logs", "daily_summary">>

\* the datasets that are also written as JSON
JsonDatasets == {"pet_activities", "daily_summary"}

\* the key of an operation in the results dictionary
ResultKey(name, kind) == name \o "_" \o kind

\* the operations load_all_data runs for one dataset: none for an empty one
OperationsFor(name, df) ==
    IF IsEmpty(df) THEN <<>>
    ELSE <<[dataset |-> name, kind |-> "csv", key |-> ResultKey(name, "csv")]>>
         \o (IF name \in JsonDatasets
             THEN <<[dataset |-> name, kind |-> "json", key |-> ResultKey(name, "json")]>>
             ELSE <<>>)
         \o <<[dataset |-> name, kind |-> "db", key |-> ResultKey(name, "db")]>>

RECURSIVE DatasetOperations(_, _)
DatasetOperations(names, transformed_data) ==
    IF names = <<>> THEN <<>>
    ELSE OperationsFor(Head(names), transformed_data[Head(names)])
         \o DatasetOperations(Tail(names), transformed_data)

\* the operations of load_all_data in the order it runs them
LoadOperations(transformed_data) ==
    DatasetOperations(DatasetNames, transformed_data)
    \o <<[dataset |-> "all", kind |-> "summary_report", key |-> "summary_report"]>>

\* DataFrame.to_sql(index=False): the rows without their index
StoredRows(df) ==
    [i \in DOMAIN df.rows |->
        [f \in DOMAIN df.rows[i] \ {"idx"} |-> df.rows[i][f]]]

IfExists_AlwaysAppend(name) == "append"

\* the if_exists mode load_all_data passes to load_to_db
IfExists(name) == IF name = "daily_summary" THEN "replace" ELSE "append"

\* load_to_db: the rows of the table afterwards; a write that fails leaves
\* the table as it was
load_to_db(stored, df, if_exists, ok) ==
    IF ~ok THEN stored
    ELSE IF if_exists = "replace" THEN StoredRows(df)
    ELSE stored \o StoredRows(df)

\* the results dictionary, in insertion order, when the operations whose
\* positions are in failed fail
LoadResults(operations, failed) ==
    [i \in DOMAIN operations |-> [key |-> operations[i].key, ok |-> i \notin failed]]

\* did the database write of the dataset run and succeed
Written(name, results) ==
    \E i \in DOMAIN results : results[i].key = ResultKey(name, "db") /\ results[i].ok

Attempted(name, kind, results) ==
    \E i \in DOMAIN results : results[i].key = ResultKey(name, kind)

load_all_data(stored, transformed_data, results) ==
    [name \in DOMAIN stored |->
        IF Attempted(name, "db", results)
        THEN load_to_db(stored[name], transformed_data[name], IfExists(name),
                        Written(name, results))
        ELSE stored[name]]

\* step 3: loader.load_all_data(transformed_data); each write may fail
LoadAllData ==
    /\ pc = "load"
    /\ \E failed \in SUBSET DOMAIN LoadOperations(tables) :
        /\ Cardinality(failed) <= MaxFailures
        /\ run' = [run EXCEPT
               !.steps = Append(@, "load"),
               !.load_results = LoadResults(LoadOperations(tables), failed)]
        /\ db' = load_all_data(db, tables, LoadResults(LoadOperations(tables), failed))
    /\ pc' = "report"
    /\ UNCHANGED <<raw, tables, config, an, now, kept>>

\* step 4: loader.create_data_quality_report(transformed_data)
CreateDataQualityReport ==
    /\ pc = "report"
    /\ \E ok \in {"True", "False"} :
        run' = [run EXCEPT !.steps = Append(@, "report"), !.quality = ok]
    /\ pc' = "summary"
    /\ UNCHANGED <<raw, tables, config, an, now, kept, db>>

pipeline_success_LoadsOnly(load_results, quality_report_success) ==
    IF Cardinality({i \in DOMAIN load_results : load_results[i].ok}) = Len(load_results)
    THEN "True" ELSE "False"

\* successful_loads == total_loads and quality_report_success
pipeline_success(load_results, quality_report_success) ==
    IF /\ Cardinality({i \in DOMAIN load_results : load_results[i].ok}) = Len(load_results)
       /\ quality_report_success = "True"
    THEN "True" ELSE "False"

\* the pipeline summary and the return
ReturnSuccess ==
    /\ pc = "summary"
    /\ run' = [run EXCEPT !.returned = pipeline_success(run.load_results, run.quality),
                          !.log = "ETL PIPELINE SUMMARY"]
    /\ pc' = "idle"
    /\ UNCHANGED <<raw, tables, config, an, now, kept, db>>

NextM ==
    \/ ExtractAllData
    \/ CheckExtracted
    \/ TransformExtracted
    \/ LoadAllData
    \/ CreateDataQualityReport
    \/ ReturnSuccess

SpecM == InitM /\ [][NextM]_vars

-----------------------------------------------------------------------------
(* Properties of the Transformer *)

Transformed == pc = "transformed"

\* a raw cell that to_numeric turns into a number
Parses(c) == c.k \in {"num", "numstr"}
SameNumber(c, x) == IsNum(c) /\ c.n = x.n /\ c.d = x.d

\* the rows of a table whose pandas index is i
RowsAt(df, i) == {j \in DOMAIN df.rows : df.rows[j].idx = i}

\* C5: the activity table returned by transform_pet_activities holds no record
\* whose duration_minutes is non-numeric, missing, zero or negative (neither as
\* its own value nor as the value of the raw record it comes from), and holds
\* every raw record whose duration_minutes is a positive number.
C5_OnlyPositiveDurations ==
    Transformed =>
        LET acts == raw.pet_activities
            out == tables.pet_activities
        IN  /\ \A r \in Range(out.rows) :
                   IsNum(r.duration_minutes) /\ r.duration_minutes.n > 0
            /\ \A i \in DOMAIN acts :
                   LET c == acts[i].duration_minutes
                   IN  /\ (c.k \in {"badstr", "nan"} \/ (IsNum(c) /\ c.n <= 0))
                            => RowsAt(out, i - 1) = {}
                       /\ (IsNum(c) /\ c.n > 0)
                            => /\ Cardinality(RowsAt(out, i - 1)) = 1
                               /\ \A j \in RowsAt(out, i - 1) :
                                      /\ out.rows[j].duration_minutes = c
                                      /\ out.rows[j].pet_id = acts[i].pet_id
                                      /\ out.rows[j].timestamp = acts[i].timestamp

C5_Witness ==
    /\ Transformed
    /\ \E i, j \in DOMAIN raw.pet_activities :
           /\ raw.pet_activities[i].duration_minutes = Num(0)
           /\ raw.pet_activities[j].duration_minutes = Num(30)
    /\ Len(tables.pet_activities.rows) = 1

\* the dates that occur in the three transformed tables
DatesOf(t) ==
    {r.date : r \in Range(t.pet_activities.rows)}
    \cup {r.date : r \in Range(t.environment.rows)}
    \cup {DateOf(r.shift_start) : r \in Range(t.staff_logs.rows)}

SummaryRowsOn(date) ==
    {i \in DOMAIN tables.daily_summary.rows : tables.daily_summary.rows[i].date = date}

NoActivityOn(date) == \A r \in Range(tables.pet_activities.rows) : r.date # date
NoReadingOn(date) == \A r \in Range(tables.environment.rows) : r.date # date
NoShiftOn(date) == \A r \in Range(tables.staff_logs.rows) : DateOf(r.shift_start) # date

\* C6: the daily summary has exactly one row for every date that occurs in one
\* of the three transformed tables and no row for any other date; on a date
\* without environment readings the three averages are null.
C6_OneRowPerDate ==
    Transformed =>
        /\ \A d \in DatesOf(tables) : Cardinality(SummaryRowsOn(d)) = 1
        /\ \A r \in Range(tables.daily_summary.rows) :
               /\ r.date \in DatesOf(tables)
               /\ NoReadingOn(r.date) =>
                      /\ IsNull(r.avg_temperature)
                      /\ IsNull(r.avg_humidity)
                      /\ IsNull(r.avg_noise)
               /\ ~NoReadingOn(r.date) => IsNum(r.avg_temperature)

C6_Witness ==
    /\ Transformed
    /\ Cardinality(DatesOf(tables)) = 3
    /\ Len(tables.daily_summary.rows) = 3
    /\ \E r \in Range(tables.daily_summary.rows) :
           NoReadingOn(r.date) /\ IsNull(r.avg_temperature)
    /\ \E r \in Range(tables.daily_summary.rows) : ~NoReadingOn(r.date)

\* C7 as stated: on a date without activities total_activities is 0 and
\* total_activity_minutes is null; on a date without staff shifts staff_shifts
\* is 0 and total_tasks is null.
C7_NullAggregates ==
    Transformed =>
        \A r \in Range(tables.daily_summary.rows) :
            /\ NoActivityOn(r.date) =>
                   r.total_activities = Num(0) /\ IsNull(r.total_activity_minutes)
            /\ NoShiftOn(r.date) =>
                   r.staff_shifts = Num(0) /\ IsNull(r.total_tasks)

\* C7 amended: on a date without activities total_activities,
\* total_activity_minutes and unique_pets are all 0; on a date without staff
\* shifts staff_shifts and total_tasks are both 0; only the environment
\* averages are null when their source has no row on the date.
C7_ZeroAggregates ==
    Transformed =>
        \A r \in Range(tables.daily_summary.rows) :
            /\ NoActivityOn(r.date) =>
                   /\ r.total_activities = Num(0)
                   /\ r.total_activity_minutes = Num(0)
                   /\ r.unique_pets = Num(0)
            /\ NoShiftOn(r.date) =>
                   r.staff_shifts = Num(0) /\ r.total_tasks = Num(0)
            /\ NoReadingOn(r.date) => IsNull(r.avg_temperature)

C7_Witness ==
    /\ Transformed
    /\ \E r \in Range(tables.daily_summary.rows) :
           NoActivityOn(r.date) /\ ~NoShiftOn(r.date)
    /\ \E r \in Range(tables.daily_summary.rows) :
           NoShiftOn(r.date) /\ ~NoActivityOn(r.date)

\* C8: transform_environment_data drops a row when one of temperature_f,
\* humidity_percent, noise_level_db fails numeric coercion, keeps every row in
\* which all three parse, with the three values unchanged, and no kept row has
\* a null in one of the three.
C8_AllThreeParsed ==
    Transformed =>
        LET env == raw.environment
            out == tables.environment
        IN  /\ \A r \in Range(out.rows) :
                   IsNum(r.temperature_f) /\ IsNum(r.humidity_percent)
                   /\ IsNum(r.noise_level_db)
            /\ \A i \in DOMAIN env.rows :
                   LET x == env.rows[i]
                       at == RowsAt(out, x.idx)
                   IN  IF Parses(x.temperature_f) /\ Parses(x.humidity_percent)
                          /\ Parses(x.noise_level_db)
                       THEN /\ Cardinality(at) = 1
                            /\ \A j \in at :
                                   /\ SameNumber(out.rows[j].temperature_f, x.temperature_f)
                                   /\ SameNumber(out.rows[j].humidity_percent, x.humidity_percent)
                                   /\ SameNumber(out.rows[j].noise_level_db, x.noise_level_db)
                       ELSE at = {}

C8_Witness ==
    /\ Transformed
    /\ Len(raw.environment.rows) = 2
    /\ Len(tables.environment.rows) = 1
    /\ \E x \in Range(raw.environment.rows) :
           /\ x.temperature_f = Num(70)
           /\ x.humidity_percent = BadStr
           /\ x.noise_level_db = Num(42)
    /\ \E r \in Range(tables.environment.rows) : r.temperature_f = Num(90)

\* C9 as stated: the staff table has one row per input row, each with
\* shift_duration_hours = shift_end - shift_start and tasks_per_hour =
\* tasks_completed / shift_duration_hours, a finite number.
C9_EveryRowFinite ==
    Transformed =>
        LET staff == raw.staff_logs
            out == tables.staff_logs
        IN  /\ Len(out.rows) = Len(staff.rows)
            /\ \A r \in Range(out.rows) :
                   /\ r.shift_duration_hours = Num(r.shift_end - r.shift_start)
                   /\ IsFinite(r.tasks_per_hour)
                   /\ r.tasks_per_hour.n * r.shift_duration_hours.n
                          = r.tasks_completed.n * r.tasks_per_hour.d

\* C9 amended: the staff table has one row per input row whose tasks_completed
\* coerces to a number >= 0 and none for the others; each row has
\* shift_duration_hours = shift_end - shift_start; tasks_per_hour is
\* tasks_completed / shift_duration_hours when the duration is not zero, and
\* for a zero-length shift it is +infinity (tasks > 0) or NaN (tasks = 0).
C9_ValidRowsOnly ==
    Transformed =>
        LET staff == raw.staff_logs
            out == tables.staff_logs
        IN  /\ \A i \in DOMAIN staff.rows :
                   LET c == staff.rows[i].tasks_completed
                   IN  Cardinality(RowsAt(out, staff.rows[i].idx))
                           = IF Parses(c) /\ c.n >= 0 THEN 1 ELSE 0
            /\ \A r \in Range(out.rows) :
                   /\ r.shift_duration_hours = Num(r.shift_end - r.shift_start)
                   /\ IsNum(r.tasks_completed) /\ r.tasks_completed.n >= 0
                   /\ IF r.shift_end # r.shift_start
                      THEN /\ IsFinite(r.tasks_per_hour)
                           /\ r.tasks_per_hour.n * (r.shift_end - r.shift_start)
                                  = r.tasks_completed.n * r.tasks_per_hour.d
                      ELSE IF r.tasks_completed.n > 0
                      THEN r.tasks_per_hour = Inf(1)
                      ELSE IsNull(r.tasks_per_hour)

C9_Witness ==
    /\ Transformed
    /\ Len(raw.staff_logs.rows) = 2
    /\ Len(tables.staff_logs.rows) = 1
    /\ \E r \in Range(tables.staff_logs.rows) :
           r.shift_end = r.shift_start /\ r.tasks_per_hour = Inf(1)

-----------------------------------------------------------------------------
(* Properties of the analyzers *)

SummaryMethods ==
    {"get_pet_wellness_summary", "get_environmental_summary", "get_operations_summary"}
AnalysisMethods == (PetMethods \cup EnvMethods \cup OpsMethods) \ SummaryMethods

\* a result has been kept
Called(M) == kept.method # "none" /\ kept.method \in M

\* the snapshot a method reads, the stamp it filters on and the type it selects
SnapshotOf(m) ==
    CASE m \in PetMethods -> an.pet
      [] m \in EnvMethods -> an.env
      [] m = "get_staff_performance_analysis" -> an.staff
      [] OTHER -> an.activities
StampOf(m, r) == IF m = "get_staff_performance_analysis" THEN r.shift_start ELSE r.timestamp
TypeOf(m) ==
    CASE m = "get_feeding_frequency_analysis" -> "feeding"
      [] m = "get_weight_trend_analysis" -> "medical"
      [] m = "get_grooming_cleaning_frequency" -> "grooming"
      [] OTHER -> "any"
WindowOf(m, days) ==
    IF days # 0 THEN days ELSE IF m = "get_noise_level_alerts" THEN 7 ELSE 30

\* the records the window/type filter of method m leaves, called at `at`
LeftAfterFilter(m, at, days) ==
    SelectSeq(SnapshotOf(m).rows, LAMBDA r :
        /\ StampOf(m, r) >= at - 24 * WindowOf(m, days)
        /\ TypeOf(m) # "any" => r.activity_type = TypeOf(m))

\* the activity records the correlation joins with, and the join keys
ActivitiesInWindow(at, days) ==
    SelectSeq(tables.pet_activities.rows,
              LAMBDA r : r.timestamp >= at - 24 * WindowOf("any", days))
JoinKeys(at, days) ==
    {<<r.timestamp \div 24, r.timestamp % 24>> :
        r \in Range(LeftAfterFilter("get_temperature_activity_correlation", at, days))}
    \cap {<<r.timestamp \div 24, r.timestamp % 24>> :
             r \in Range(ActivitiesInWindow(at, days))}

C2_NeverRaises ==
    Called(PetMethods \cup EnvMethods \cup OpsMethods) => kept.result.kind # "raise"

\* C3: method calls leave the tables passed to the constructors and to
\* get_temperature_activity_correlation, the snapshots inside the analyzers and
\* the threshold configuration as they were right after construction
C3_NothingMutated ==
    pc = "analysing"
        => /\ tables = transform_all_data(raw)
           /\ an = Constructed(transform_all_data(raw))
           /\ config = Config

\* the correlation has been computed from a passed activity table with records
C3_Witness ==
    /\ Called({"get_temperature_activity_correlation"})
    /\ kept.result.kind = "mapping"
    /\ ~HasError(kept.result)
    /\ tables.pet_activities.rows # <<>>

\* what method m returns when called again with `days` at `instant` on the
\* snapshots a; option is by_section for get_temperature_humidity_averages and
\* tells whether get_environmental_summary is given the table t.pet_activities
Invoke(m, cfg, a, t, instant, days, option) ==
    CASE m = "get_avg_activity_time_per_pet" ->
             get_avg_activity_time_per_pet(cfg, a.pet, instant, days)
      [] m = "get_feeding_frequency_analysis" ->
             get_feeding_frequency_analysis(cfg, a.pet, instant, days)
      [] m = "get_weight_trend_analysis" ->
             get_weight_trend_analysis(cfg, a.pet, instant, days)
      [] m = "get_pet_wellness_summary" ->
             get_pet_wellness_summary(cfg, a.pet, instant)
      [] m = "get_temperature_humidity_averages" ->
             get_temperature_humidity_averages(cfg, a.env, instant, days, option)
      [] m = "get_noise_level_alerts" ->
             get_noise_level_alerts(cfg, a.env, instant, days)
      [] m = "get_temperature_activity_correlation" ->
             get_temperature_activity_correlation(cfg, a.env, t.pet_activities,
                                                  instant, days)
      [] m = "get_environmental_summary" ->
             get_environmental_summary(cfg, a.env, option, t.pet_activities, instant)
      [] m = "get_grooming_cleaning_frequency" ->
             get_grooming_cleaning_frequency(cfg, a.activities, instant, days)
      [] m = "get_staff_performance_analysis" ->
             get_staff_performance_analysis(cfg, a.staff, a.activities, instant, days)
      [] m = "get_alert_trends_analysis" ->
             get_alert_trends_analysis(cfg, a.activities, instant, days)
      [] m = "get_operations_summary" ->
             get_operations_summary(cfg, a.staff, a.activities, instant)

\* C4 as stated: a call with the same method, snapshot and `days` returns the
\* kept result again at any later instant
C4_SameResultAtAnyInstant ==
    Called(PetMethods \cup EnvMethods \cup OpsMethods)
        => Invoke(kept.method, config, an, tables, now, kept.days, kept.option)
               = kept.result

\* C4, amended: a call with the same method, snapshot and `days` returns the
\* kept result again when the clock reads the same instant, whatever calls
\* have been made in between
C4_SameResultAtSameInstant ==
    (Called(PetMethods \cup EnvMethods \cup OpsMethods) /\ kept.at = now)
        => Invoke(kept.method, config, an, tables, now, kept.days, kept.option)
               = kept.result

\* a kept result that depends on the window: records inside and outside it
C4_Witness ==
    /\ Called({"get_grooming_cleaning_frequency"})
    /\ kept.at = now
    /\ ~HasError(kept.result)
    /\ kept.result.kind = "mapping"
    /\ Len(an.activities.rows) > Len(LeftAfterFilter(kept.method, kept.at, kept.days))

\* C10: get_avg_activity_time_per_pet returns one row per pet with a record in
\* the window; its avg_daily_minutes is the pet's minutes in the window divided
\* by the number of distinct days on which the pet has such a record, rounded to
\* 2 places; its status is low below 60, high above 180, else optimal; raw
\* records of 30, 45 and 0 minutes on three days give 37.5 and low
C10_MeanOverActiveDays ==
    (Called({"get_avg_activity_time_per_pet"}) /\ raw.pet_activities # <<>>)
        => LET cutoff == kept.at - 24 * WindowOf(kept.method, kept.days)
               recent == SelectSeq(tables.pet_activities.rows,
                                   LAMBDA r : r.timestamp >= cutoff)
               pets == {r.pet_id : r \in Range(recent)}
               Of(p) == SelectSeq(recent, LAMBDA r : r.pet_id = p)
               Days(p) == {r.timestamp \div 24 : r \in Range(Of(p))}
               Expected(p) ==
                   Round(Div(SumOver(Of(p), LAMBDA r : r.duration_minutes),
                             Num(Cardinality(Days(p)))), 2)
               rows == kept.result.rows
               mine == SelectSeq(raw.pet_activities,
                                 LAMBDA r : r.pet_id = 1 /\ r.timestamp >= cutoff)
           IN  /\ kept.result.kind = "table"
               /\ Len(rows) = Cardinality(pets)
               /\ {rows[i].pet_id : i \in DOMAIN rows} = pets
               /\ \A i \in DOMAIN rows :
                      /\ rows[i].avg_daily_minutes = Expected(rows[i].pet_id)
                      /\ rows[i].activity_status =
                             IF Lt(rows[i].avg_daily_minutes, Num(60)) THEN "low"
                             ELSE IF Gt(rows[i].avg_daily_minutes, Num(180)) THEN "high"
                             ELSE "optimal"
               /\ (/\ Len(mine) = 3
                   /\ {r.duration_minutes : r \in Range(mine)} = {Num(30), Num(45), Num(0)}
                   /\ Cardinality({r.timestamp \div 24 : r \in Range(mine)}) = 3)
                      => \E i \in DOMAIN rows :
                             /\ rows[i].pet_id = 1
                             /\ rows[i].avg_daily_minutes = R(75, 2)
                             /\ rows[i].activity_status = "low"

\* the pet of the example has been averaged over its two days with minutes
C10_Witness ==
    /\ Called({"get_avg_activity_time_per_pet"})
    /\ kept.result.kind = "table"
    /\ LET mine == SelectSeq(raw.pet_activities, LAMBDA r : r.pet_id = 1)
       IN  /\ Len(mine) = 3
           /\ {r.duration_minutes : r \in Range(mine)} = {Num(30), Num(45), Num(0)}
           /\ Cardinality({r.timestamp \div 24 : r \in Range(mine)}) = 3
    /\ kept.days = 0
    /\ \E i \in DOMAIN kept.result.rows :
           /\ kept.result.rows[i].pet_id = 1
           /\ kept.result.rows[i].avg_daily_minutes = R(75, 2)
           /\ kept.result.rows[i].activity_status = "low"

\* C17: get_temperature_activity_correlation returns a mapping with the key
\* `error` whenever the inner join of the hourly environment and activity records
\* has fewer than 2 rows (none, or exactly one)
C17_ErrorBelowTwoJoinedRows ==
    (/\ Called({"get_temperature_activity_correlation"})
     /\ an.env.cols # {}
     /\ tables.pet_activities.cols # {}
     /\ Cardinality(JoinKeys(kept.at, kept.days)) < 2)
        => (kept.result.kind = "mapping" /\ HasError(kept.result))

-----------------------------------------------------------------------------
(* Properties of the staff analysis *)

\* a staff analysis with members has been kept
StaffAnalysed ==
    /\ Called({"get_staff_performance_analysis"})
    /\ kept.result.kind = "mapping"
    /\ ~HasError(kept.result)

\* the in-window shifts of a member, and the mean of their tasks per hour
ShiftsOf(id) ==
    SelectSeq(LeftAfterFilter("get_staff_performance_analysis", kept.at, kept.days),
              LAMBDA r : r.staff_id = id)
MeanRate(id) == MeanOver(ShiftsOf(id), LAMBDA r : r.tasks_per_hour)

\* the rating rule on the thresholds 1.2 and 0.8
RatingOf(rate) ==
    IF Ge(rate, R(12, 10)) THEN "excellent"
    ELSE IF Ge(rate, R(8, 10)) THEN "satisfactory"
    ELSE "below_target"

ExampleMember(id) ==
    /\ Len(ShiftsOf(id)) = 1
    /\ ShiftsOf(id)[1].shift_duration_hours = Num(8)
    /\ ShiftsOf(id)[1].tasks_completed = Num(10)
    /\ HourOf(ShiftsOf(id)[1].shift_start) = 9

\* C12 as stated: 10 tasks in the 8 hours from 09:00 to 17:00 give 1.25 tasks
\* per hour and the rating satisfactory under target 1.2 and minimum 0.8
C12_ExampleSatisfactory ==
    StaffAnalysed
        => \A r \in Range(kept.result.detailed_staff_metrics) :
               ExampleMember(r.staff_id)
                   => /\ r.avg_tasks_per_hour = R(125, 100)
                      /\ r.performance_rating = "satisfactory"

\* C12 amended: 10 tasks in the 8 hours from 09:00 to 17:00 give 1.25 tasks per
\* hour and the rating excellent under target 1.2 and minimum 0.8, since
\* 1.25 >= 1.2
C12_ExampleExcellent ==
    (/\ StaffAnalysed
     /\ config.OPERATIONS.staff_performance.target_tasks_per_hour = R(12, 10)
     /\ config.OPERATIONS.staff_performance.min_tasks_per_hour = R(8, 10))
        => \A r \in Range(kept.result.detailed_staff_metrics) :
               ExampleMember(r.staff_id)
                   => /\ ShiftsOf(r.staff_id)[1].tasks_per_hour = R(125, 100)
                      /\ r.avg_tasks_per_hour = R(125, 100)
                      /\ r.performance_rating = "excellent"

\* the member of the example has been rated; an older shift lies outside the window
C12_Witness ==
    /\ StaffAnalysed
    /\ \E r \in Range(kept.result.detailed_staff_metrics) :
           /\ ExampleMember(r.staff_id)
           /\ r.performance_rating = "excellent"
           /\ \E x \in Range(an.staff.rows) :
                  x.staff_id = r.staff_id /\ x.shift_start < kept.at - 24 * 30

-----------------------------------------------------------------------------
(* Properties of the operations summary *)

\* an operations summary has been kept
Summarised ==
    /\ Called({"get_operations_summary"})
    /\ kept.result.kind = "mapping"

\* the members the kept staff analysis rates with `label`
Rated(label) ==
    Cardinality({r.staff_id : r \in {x \in Range(kept.result.staff_performance
                                                     .detailed_staff_metrics) :
                                        x.performance_rating = label}})

\* (excellent x 100 + satisfactory x 70) / total_staff of the kept staff analysis
WeightedStaffScore ==
    R(Rated("excellent") * 100 + Rated("satisfactory") * 70,
      Len(kept.result.staff_performance.detailed_staff_metrics))

\* C18 as stated: the staff score is (excellent x 100 + satisfactory x 70) /
\* total_staff, and 0 when no staff member was analysed in the window
C18_StaffScoreZeroWithoutStaff ==
    Summarised
        => _calculate_staff_score(kept.result.staff_performance)
               = IF HasError(kept.result.staff_performance) THEN Num(0)
                 ELSE WeightedStaffScore

\* C18 amended: the staff score is (excellent x 100 + satisfactory x 70) /
\* total_staff, and 50 when no staff member was analysed in the window
C18_StaffScoreFiftyWithoutStaff ==
    Summarised
        => _calculate_staff_score(kept.result.staff_performance)
               = IF HasError(kept.result.staff_performance) THEN Num(50)
                 ELSE WeightedStaffScore

\* a summary over shifts that all lie before the window
C18_Witness ==
    /\ Summarised
    /\ an.staff.rows # <<>>
    /\ HasError(kept.result.staff_performance)
    /\ _calculate_staff_score(kept.result.staff_performance) = Num(50)

-----------------------------------------------------------------------------
(* Properties of the environmental ratings *)

\* lo <= value <= hi; false for an undefined mean
InBand(value, lo, hi) == Le(lo, value) /\ Le(value, hi)

TemperatureOptimal ==
    InBand(raw.avg_temperature, config.ENVIRONMENT.temperature.optimal_min,
           config.ENVIRONMENT.temperature.optimal_max)
HumidityOptimal ==
    InBand(raw.avg_humidity, config.ENVIRONMENT.humidity.optimal_min,
           config.ENVIRONMENT.humidity.optimal_max)
NoiseNormal == Le(raw.avg_noise, config.ENVIRONMENT.noise.normal_max)

\* 100 for a metric in its band, 50 otherwise
SubScore(in_band) == IF in_band THEN 100 ELSE 50

\* C13: _calculate_comfort_score returns one of 50.0, 66.7, 83.3 and 100.0, the
\* mean (to one decimal) of three sub-scores that are 100 for a metric whose mean
\* lies in its optimal band and 50 otherwise, undefined means included
C13_ComfortScoreValues ==
    Called({"_calculate_comfort_score"})
        => /\ kept.result \in {Num(50), R(667, 10), R(833, 10), Num(100)}
           /\ kept.result =
                  Round(R(SubScore(TemperatureOptimal) + SubScore(HumidityOptimal)
                              + SubScore(NoiseNormal), 3), 1)
           /\ (raw.avg_temperature = NaN /\ raw.avg_humidity = NaN /\ raw.avg_noise = NaN)
                  => kept.result = Num(50)

\* exactly two of the three means lie in their bands and the score is 83.3
C13_Witness ==
    /\ Called({"_calculate_comfort_score"})
    /\ TemperatureOptimal /\ HumidityOptimal /\ ~NoiseNormal
    /\ kept.result = R(833, 10)

\* the two-tier rule on the bands of one metric
TwoTier(value, bands) ==
    IF InBand(value, bands.optimal_min, bands.optimal_max) THEN "optimal"
    ELSE IF InBand(value, bands.alert_min, bands.alert_max) THEN "acceptable"
    ELSE "poor"

\* C14: temperature and humidity are rated optimal inside their own optimal band,
\* else acceptable inside their alert band, else poor, band ends inclusive; a
\* mean of 90 with the bands [68,78] and [60,85] is rated poor and contributes
\* the sub-score 50 to the comfort score
C14_TwoTierRatings ==
    /\ Called({"_rate_temperature_comfort"})
           => /\ kept.result = TwoTier(raw.avg_temperature, config.ENVIRONMENT.temperature)
              /\ (config = Config /\ raw.avg_temperature = Num(90)) => kept.result = "poor"
    /\ Called({"_rate_humidity_comfort"})
           => kept.result = TwoTier(raw.avg_humidity, config.ENVIRONMENT.humidity)
    /\ (Called({"_calculate_comfort_score"}) /\ config = Config
            /\ raw.avg_temperature = Num(90))
           => kept.result =
                  Round(R(50 + SubScore(HumidityOptimal) + SubScore(NoiseNormal), 3), 1)

\* the mean of the example has been rated
C14_Witness ==
    /\ Called({"_rate_temperature_comfort"})
    /\ config = Config
    /\ raw.avg_temperature = Num(90)
    /\ kept.result = "poor"

\* the place of a noise category in the order normal < elevated < high < critical
NoiseRank(category) ==
    CASE category = "normal" -> 1
      [] category = "elevated" -> 2
      [] category = "high" -> 3
      [] category = "critical" -> 4

\* C15: _categorize_noise_level gives every value one of the four categories;
\* the category is normal up to normal_max, elevated up to alert_threshold, high
\* up to critical_threshold (the thresholds included) and critical above; a
\* louder value never gets a lower category
C15_NoiseIntervals ==
    Called({"_categorize_noise_level"})
        => LET noise == raw.avg_noise
               c == config.ENVIRONMENT.noise
           IN  /\ kept.result \in {"normal", "elevated", "high", "critical"}
               /\ IsNum(noise) =>
                      /\ kept.result = "normal" <=> Le(noise, c.normal_max)
                      /\ kept.result = "elevated" <=>
                             (Gt(noise, c.normal_max) /\ Le(noise, c.alert_threshold))
                      /\ kept.result = "high" <=>
                             (Gt(noise, c.alert_threshold) /\ Le(noise, c.critical_threshold))
                      /\ kept.result = "critical" <=> Gt(noise, c.critical_threshold)
                      /\ \A louder \in NoiseMeans :
                             Ge(louder, noise)
                                 => NoiseRank(_categorize_noise_level(config, louder))
                                        >= NoiseRank(kept.result)

\* a value on a threshold has been put into the lower category
C15_Witness ==
    /\ Called({"_categorize_noise_level"})
    /\ raw.avg_noise = config.ENVIRONMENT.noise.alert_threshold
    /\ kept.result = "elevated"

-----------------------------------------------------------------------------
(* Properties of the grooming analysis *)

GroomingAnalysed ==
    /\ Called({"get_grooming_cleaning_frequency"})
    /\ kept.result.kind = "mapping"
    /\ ~HasError(kept.result)

TargetDays == config.OPERATIONS.grooming_frequency.target_days_between
AlertDays == config.OPERATIONS.grooming_frequency.alert_days_overdue

\* the pets of the result whose last grooming is more than `limit` days back
PetsBeyond(limit) ==
    {r.pet_id : r \in {x \in Range(kept.result.detailed_per_pet) :
                           x.days_since_last_groom > limit}}

\* C16: in a grooming result without error, under a configuration with
\* alert_days_overdue >= target_days_between, every overdue pet is a pet needing
\* grooming and pets_overdue_grooming <= pets_needing_grooming <= pets_groomed
C16_OverdueWithinNeeding ==
    (GroomingAnalysed /\ AlertDays >= TargetDays)
        => /\ {r.pet_id : r \in Range(kept.result.pets_needing_attention)}
                  = PetsBeyond(AlertDays)
           /\ PetsBeyond(AlertDays) \subseteq PetsBeyond(TargetDays)
           /\ kept.result.pets_overdue_grooming = Cardinality(PetsBeyond(AlertDays))
           /\ kept.result.pets_needing_grooming = Cardinality(PetsBeyond(TargetDays))
           /\ kept.result.pets_groomed = Len(kept.result.detailed_per_pet)
           /\ kept.result.pets_overdue_grooming <= kept.result.pets_needing_grooming
           /\ kept.result.pets_needing_grooming <= kept.result.pets_groomed

\* three pets groomed, two of them needing grooming, one of these overdue
C16_Witness ==
    /\ GroomingAnalysed
    /\ AlertDays >= TargetDays
    /\ kept.result.pets_overdue_grooming = 1
    /\ kept.result.pets_needing_grooming = 2
    /\ kept.result.pets_groomed = 3

-----------------------------------------------------------------------------
(* Properties of the operations scores *)

\* an alert score has been computed and kept
AlertScored ==
    /\ Called({"_calculate_alert_score"})
    /\ "k" \in DOMAIN kept.result

\* the records of the snapshot inside the window of the kept call
InAlertWindow ==
    SelectSeq(an.activities.rows,
              LAMBDA r : r.timestamp >= kept.at - 24 * WindowOf("any", kept.days))
HealthAlertsInWindow ==
    Len(SelectSeq(InAlertWindow, LAMBDA r : r.activity_type = "medical"))
FeedingDelaysInWindow ==
    Len(SelectSeq(InAlertWindow, LAMBDA r :
            r.activity_type = "feeding" /\ r.hour \notin {7, 8, 12, 13, 17, 18}))

Smaller(a, b) == IF Lt(a, b) THEN a ELSE b
Larger(a, b) == IF Gt(a, b) THEN a ELSE b
Within0To100(c) == IsNum(c) /\ Le(Num(0), c) /\ Le(c, Num(100))

\* 100 - min(30, health per day x 5) - min(20, delays per day x 10), not below 0
AlertScoreFrom(health_per_day, delays_per_day) ==
    Larger(Num(0),
           Sub(Sub(Num(100), Smaller(Num(30), Mul(health_per_day, Num(5)))),
               Smaller(Num(20), Mul(delays_per_day, Num(10)))))

\* C19: the alert score is 100 - min(30, healthAlertsPerDay x 5)
\* - min(20, feedingDelaysPerDay x 10), floored at 0, the rates being the counts
\* of medical records and of feedings outside the normal hours in the window,
\* divided by the days of the window; the score lies in [0, 100]
C19_AlertScore ==
    AlertScored
        => /\ kept.result =
                  AlertScoreFrom(R(HealthAlertsInWindow, WindowOf("any", kept.days)),
                                 R(FeedingDelaysInWindow, WindowOf("any", kept.days)))
           /\ Within0To100(kept.result)

\* both penalties are capped: seven alerts and three delays in a window of one
\* day leave the score 50
C19_Witness ==
    /\ AlertScored
    /\ kept.days = 1
    /\ HealthAlertsInWindow = 7
    /\ FeedingDelaysInWindow = 3
    /\ kept.result = Num(50)

\* the three sub-scores of the kept summary, from the analyses it carries
GroomingSubScore ==
    LET g == kept.result.grooming_operations
    IN  IF HasError(g) THEN Num(0)
        ELSE Mul(Sub(Num(1), R(g.pets_overdue_grooming, g.pets_groomed)), Num(100))
StaffSubScore ==
    IF HasError(kept.result.staff_performance) THEN Num(50) ELSE WeightedStaffScore
AlertSubScore ==
    AlertScoreFrom(kept.result.alert_management.avg_health_alerts_per_day,
                   kept.result.alert_management.avg_feeding_delays_per_day)
MeanSubScore == Div(Add(Add(GroomingSubScore, StaffSubScore), AlertSubScore), Num(3))

-----------------------------------------------------------------------------
(* Properties of the recommendations *)

\* the four conditions, read from the analyses the kept summary carries
OverduePets ==
    IF HasError(kept.result.grooming_operations) THEN 0
    ELSE kept.result.grooming_operations.pets_overdue_grooming
BelowTargetStaff ==
    IF HasError(kept.result.staff_performance) THEN 0 ELSE Rated("below_target")
HealthAlertsHigh == Gt(kept.result.alert_management.avg_health_alerts_per_day, Num(2))
FeedingDelaysHigh == Gt(kept.result.alert_management.avg_feeding_delays_per_day, Num(1))

\* the messages in their fixed order, each present when its condition holds
ExpectedRecommendations ==
    (IF OverduePets > 0 THEN <<GroomingMessage(OverduePets)>> ELSE <<>>)
    \o (IF BelowTargetStaff > 0 THEN <<StaffMessage(BelowTargetStaff)>> ELSE <<>>)
    \o (IF HealthAlertsHigh
        THEN <<"Review health monitoring protocols - high alert frequency detected">>
        ELSE <<>>)
    \o (IF FeedingDelaysHigh
        THEN <<"Optimize feeding schedules to reduce delays">> ELSE <<>>)

\* C21: key_recommendations is never empty; it holds the grooming, staff, health
\* alert and feeding delay messages in this order, each exactly when its
\* condition holds (overdue pets > 0, below-target staff > 0, health alerts per
\* day > 2, feeding delays per day > 1), and the single 'running smoothly'
\* message exactly when none of them holds
C21_Recommendations ==
    Summarised
        => /\ kept.result.key_recommendations # <<>>
           /\ kept.result.key_recommendations =
                  IF ExpectedRecommendations = <<>>
                  THEN <<"Operations are running smoothly - maintain current standards">>
                  ELSE ExpectedRecommendations

\* all four conditions hold and the four messages are listed
C21_Witness ==
    /\ Summarised
    /\ OverduePets > 0 /\ BelowTargetStaff > 0 /\ HealthAlertsHigh /\ FeedingDelaysHigh
    /\ Len(kept.result.key_recommendations) = 4
    /\ kept.result.key_recommendations[1] = GroomingMessage(1)

-----------------------------------------------------------------------------
(* Properties of the wellness summary *)

WellnessSummarised ==
    /\ Called({"get_pet_wellness_summary"})
    /\ kept.result.kind = "mapping"

\* the pets with a record in the default window, and those the kept analyses
\* rate with one of `labels`
AnalysedPets ==
    {r.pet_id : r \in {x \in Range(an.pet.rows) :
                           x.timestamp >= kept.at - 24 * WindowOf("any", 0)}}
ActivityRated(labels) ==
    {r.pet_id : r \in {x \in Range(kept.result.activity_details.rows) :
                           x.activity_status \in labels}}
FeedingRated(labels) ==
    {r.pet_id : r \in {x \in Range(kept.result.feeding_details.detailed_per_pet) :
                           x.feeding_status \in labels}}

Percentage(pets, all) ==
    IF Cardinality(all) > 0 THEN R(Cardinality(pets) * 100, Cardinality(all)) ELSE Num(0)

\* C22: activity_wellness_rate is the percentage of analysed pets rated optimal,
\* feeding_wellness_rate the percentage rated normal; both lie in [0, 100] and
\* are 0 without pets; pets_needing_attention is the set of analysed pets rated
\* low or high, which together with the optimal pets partitions total_pets
C22_WellnessRates ==
    WellnessSummarised
        => /\ kept.result.total_pets = Cardinality(AnalysedPets)
           /\ kept.result.activity_wellness_rate =
                  Percentage(ActivityRated({"optimal"}), AnalysedPets)
           /\ kept.result.feeding_wellness_rate =
                  Percentage(FeedingRated({"normal"}), AnalysedPets)
           /\ Within0To100(kept.result.activity_wellness_rate)
           /\ Within0To100(kept.result.feeding_wellness_rate)
           /\ AnalysedPets = {} =>
                  /\ kept.result.activity_wellness_rate = Num(0)
                  /\ kept.result.feeding_wellness_rate = Num(0)
           /\ {r.pet_id : r \in Range(kept.result.pets_needing_attention)}
                  = ActivityRated({"low", "high"})
           /\ Len(kept.result.pets_needing_attention)
                  = Cardinality(ActivityRated({"low", "high"}))
           /\ ActivityRated({"low", "high"}) \cup ActivityRated({"optimal"}) = AnalysedPets
           /\ ActivityRated({"low", "high"}) \cap ActivityRated({"optimal"}) = {}
           /\ Len(kept.result.pets_needing_attention)
                  + Cardinality(ActivityRated({"optimal"})) = kept.result.total_pets

\* one pet is optimal and fed normally, the other needs attention: both rates 50
C22_Witness ==
    /\ WellnessSummarised
    /\ kept.result.total_pets = 2
    /\ kept.result.activity_wellness_rate = Num(50)
    /\ kept.result.feeding_wellness_rate = Num(50)
    /\ Len(kept.result.pets_needing_attention) = 1

-----------------------------------------------------------------------------
(* Properties of the noise alerts *)

NoiseAnalysed ==
    /\ Called({"get_noise_level_alerts"})
    /\ kept.result.kind = "mapping"

\* the readings of the snapshot in the window of the kept call that are louder
\* than `threshold`
LouderInWindow(threshold) ==
    Len(SelectSeq(an.env.rows,
                  LAMBDA r : /\ r.timestamp >= kept.at
                                    - 24 * WindowOf("get_noise_level_alerts", kept.days)
                             /\ Gt(r.noise_level_db, threshold)))

\* the readings noise_distribution counts in `category`
Categorised(category) ==
    IF category \in DOMAIN kept.result.noise_distribution
    THEN kept.result.noise_distribution[category] ELSE 0

\* C23: total_alerts counts the in-window readings strictly above
\* alert_threshold, critical_alerts those strictly above critical_threshold,
\* alerts_per_day is total_alerts / days; critical_alerts <= total_alerts,
\* total_alerts is the number of readings categorised high or critical and
\* critical_alerts the number categorised critical
C23_NoiseAlertCounts ==
    NoiseAnalysed
        => /\ kept.result.total_alerts =
                  LouderInWindow(config.ENVIRONMENT.noise.alert_threshold)
           /\ kept.result.critical_alerts =
                  LouderInWindow(config.ENVIRONMENT.noise.critical_threshold)
           /\ kept.result.alerts_per_day =
                  R(kept.result.total_alerts,
                    WindowOf("get_noise_level_alerts", kept.days))
           /\ kept.result.critical_alerts <= kept.result.total_alerts
           /\ kept.result.total_alerts = Categorised("high") + Categorised("critical")
           /\ kept.result.critical_alerts = Categorised("critical")

\* a critical reading, a high one and one on the alert threshold in the window
C23_Witness ==
    /\ NoiseAnalysed
    /\ kept.result.total_alerts = 2
    /\ kept.result.critical_alerts = 1
    /\ Categorised("elevated") = 1

-----------------------------------------------------------------------------
(* Properties of the alert analysis *)

AlertsAnalysed ==
    /\ Called({"get_alert_trends_analysis"})
    /\ kept.result.kind = "mapping"

\* the records of the snapshot in the window of the kept call, by type
InWindowOfType(type) ==
    SelectSeq(an.activities.rows,
              LAMBDA r : /\ r.timestamp >= kept.at - 24 * WindowOf("any", kept.days)
                         /\ r.activity_type = type)
LateFeedings ==
    SelectSeq(InWindowOfType("feeding"),
              LAMBDA r : (r.timestamp % 24) \notin {7, 8, 12, 13, 17, 18})

\* the indices of the records of a selection
IndicesOf(rows) == {r.idx : r \in Range(rows)}

\* C24: a feeding in the window is a feeding delay exactly when its hour is not
\* one of 7, 8, 12, 13, 17, 18, and nothing but feedings is counted; the health
\* alerts are the medical records in the window; so total_feeding_delays is at
\* most the number of feedings in the window and no record is in both sets
C24_DelaysAndHealthAlerts ==
    AlertsAnalysed
        => /\ kept.result.total_feeding_delays = Len(LateFeedings)
           /\ kept.result.total_health_alerts = Len(InWindowOfType("medical"))
           /\ kept.result.total_feeding_delays <= Len(InWindowOfType("feeding"))
           /\ DOMAIN kept.result.peak_feeding_issue_hours
                  \subseteq {r.timestamp % 24 : r \in Range(LateFeedings)}
           /\ DOMAIN kept.result.peak_health_alert_hours
                  \subseteq {r.timestamp % 24 : r \in Range(InWindowOfType("medical"))}
           /\ IndicesOf(LateFeedings) \cap IndicesOf(InWindowOfType("medical")) = {}

\* a feeding at 13:00, a feeding at 19:00 and a medical record at 09:00
C24_Witness ==
    /\ AlertsAnalysed
    /\ Len(InWindowOfType("feeding")) = 2
    /\ \E r \in Range(InWindowOfType("feeding")) : r.timestamp % 24 = 13
    /\ kept.result.total_feeding_delays = 1
    /\ kept.result.total_health_alerts = 1
    /\ 9 \in DOMAIN kept.result.peak_health_alert_hours

-----------------------------------------------------------------------------
(* Properties of the alert trends *)

\* the alerts of a category in the window of the kept call
AlertsOf(category) ==
    IF category = "health" THEN InWindowOfType("medical") ELSE LateFeedings
TrendOf(category) ==
    IF category = "health" THEN kept.result.alert_summary.health_alerts_trend
    ELSE kept.result.alert_summary.feeding_delays_trend

\* the alerts of a category on one calendar date
AlertsOn(category, date) ==
    Len(SelectSeq(AlertsOf(category), LAMBDA r : r.timestamp \div 24 = date))
AlertDates(category) == {r.timestamp \div 24 : r \in Range(AlertsOf(category))}

\* the first and the last calendar date of the window of the kept call
FirstDate == (kept.at - 24 * WindowOf("any", kept.days)) \div 24
LastDate == kept.at \div 24

\* C25 as stated: the trend of a category is increasing exactly when the mean
\* daily count over the last 3 days of the window exceeds that over the first 3
\* days of the window, days without alerts counting as 0, and stable otherwise
C25_TrendOverWindowDays ==
    AlertsAnalysed
        => \A category \in {"health", "feeding"} :
               /\ TrendOf(category) \in {"increasing", "stable"}
               /\ TrendOf(category) = "increasing" <=>
                      AlertsOn(category, LastDate) + AlertsOn(category, LastDate - 1)
                          + AlertsOn(category, LastDate - 2)
                      > AlertsOn(category, FirstDate) + AlertsOn(category, FirstDate + 1)
                          + AlertsOn(category, FirstDate + 2)

\* the sum of the counts of the dates in `dates`
RECURSIVE AlertsOnDates(_, _)
AlertsOnDates(category, dates) ==
    IF dates = {} THEN 0
    ELSE LET d == CHOOSE x \in dates : TRUE
         IN  AlertsOn(category, d) + AlertsOnDates(category, dates \ {d})

\* the (up to) `n` earliest and latest dates on which the category has alerts
EarliestDates(category, n) ==
    {d \in AlertDates(category) :
        Cardinality({x \in AlertDates(category) : x < d}) < n}
LatestDates(category, n) ==
    {d \in AlertDates(category) :
        Cardinality({x \in AlertDates(category) : x > d}) < n}

\* C25 amended: the trend of a category is increasing exactly when the mean
\* count of the last 3 dates that have alerts exceeds the mean count of the
\* first 3 dates that have alerts, and stable otherwise; dates without alerts do
\* not enter the means
C25_TrendOverAlertDates ==
    AlertsAnalysed
        => \A category \in {"health", "feeding"} :
               /\ TrendOf(category) \in {"increasing", "stable"}
               /\ TrendOf(category) = "increasing" <=>
                      AlertsOnDates(category, LatestDates(category, 3))
                          > AlertsOnDates(category, EarliestDates(category, 3))

\* alerts on four dates, 1 1 1 2: the last three dates outweigh the first three
C25_Witness ==
    /\ AlertsAnalysed
    /\ Cardinality(AlertDates("health")) = 4
    /\ AlertsOn("health", 35) = 2
    /\ AlertsOnDates("health", EarliestDates("health", 3)) = 3
    /\ TrendOf("health") = "increasing"

\* C27: with the alerts of a category on at most 3 distinct dates, none
\* included, get_alert_trends_analysis does not raise and labels the category's
\* trend stable whatever the counts; increasing needs alerts on at least 4 dates
C27_StableUpToThreeDates ==
    Called({"get_alert_trends_analysis"})
        => \A category \in {"health", "feeding"} :
               Cardinality(AlertDates(category)) <= 3
                   => /\ kept.result.kind = "mapping"
                      /\ TrendOf(category) = "stable"

-----------------------------------------------------------------------------
(* Properties of the comfort labels *)

\* the comfort summary the analyzer gives for a table, called as the kept call
ComfortSummaryOn(df) ==
    get_temperature_humidity_averages(config, df, kept.at, kept.days, kept.option)
        .comfort_summary

\* C26: the labels the Transformer attaches to a reading are its threshold
\* classifications (temperature and humidity by the two-tier rule on the
\* configured bands, noise by the four-tier rule), so the comfort_summary of
\* get_temperature_humidity_averages is the same for a table with the columns
\* temp_comfort, humidity_comfort, noise_comfort and for the table without them
C26_SameSummaryWithAndWithoutLabels ==
    /\ \A r \in Range(tables.environment.rows) :
           /\ r.temp_comfort = TwoTier(r.temperature_f, config.ENVIRONMENT.temperature)
           /\ r.humidity_comfort = TwoTier(r.humidity_percent, config.ENVIRONMENT.humidity)
           /\ r.noise_comfort = _categorize_noise_level(config, r.noise_level_db)
    /\ (Called({"get_temperature_humidity_averages"}) /\ kept.result.kind = "mapping")
           => /\ kept.result.comfort_summary
                     = ComfortSummaryOn(EnvironmentalAnalyzer(tables.environment))
              /\ kept.result.comfort_summary
                     = ComfortSummaryOn(
                           EnvironmentalAnalyzer(WithoutComfort(tables.environment)))

-----------------------------------------------------------------------------
(* Properties of the pipeline *)

Started(step) == \E i \in DOMAIN run.steps : run.steps[i] = step

\* at least one of the three extracted sources holds a line
HasData(raw_data) ==
    \/ raw_data.pet_activities # <<>>
    \/ raw_data.environment.rows # <<>>
    \/ raw_data.staff_logs.rows # <<>>

\* C28: a run returns without transforming only when all three extracted
\* sources are empty, and then it logs 'No data extracted'; a run whose
\* sources hold any data goes through transform, load and report in that
\* order before it returns.
C28_AbortsOnlyWhenAllEmpty ==
    run.returned # "none" =>
        IF HasData(raw)
        THEN run.steps = <<"extract", "transform", "load", "report">>
        ELSE /\ run.steps = <<"extract">>
             /\ run.returned = "False"
             /\ run.log = "No data extracted. Check if data files exist and are readable."

AllSucceeded(results) == \A i \in DOMAIN results : results[i].ok

\* C29: once load_all_data has run, every dataset that is not empty has its
\* CSV and database result (and its JSON result where one is written), an
\* empty dataset has none, and the summary report has one, whichever of them
\* failed; the quality report is made all the same; and the run returns
\* True exactly when every recorded result and the quality report succeeded.
C29_LoadFailuresAreRecorded ==
    /\ Started("load") =>
        /\ \A n \in DOMAIN DatasetNames :
            LET name == DatasetNames[n]
            IN  /\ Attempted(name, "csv", run.load_results) <=> ~IsEmpty(tables[name])
                /\ Attempted(name, "db", run.load_results) <=> ~IsEmpty(tables[name])
                /\ Attempted(name, "json", run.load_results)
                       <=> (~IsEmpty(tables[name]) /\ name \in JsonDatasets)
        /\ \E i \in DOMAIN run.load_results : run.load_results[i].key = "summary_report"
        /\ (pc \in {"summary", "idle"} => run.quality \in {"True", "False"})
    /\ run.returned # "none" =>
        (run.returned = "True"
            <=> /\ Started("load")
                /\ AllSucceeded(run.load_results)
                /\ run.quality = "True")

\* a run that returned False because its first write failed, after which
\* the later writes and the quality report succeeded, with an empty dataset
C29_Witness ==
    /\ run.returned = "False"
    /\ Len(run.load_results) > 3
    /\ ~run.load_results[1].ok
    /\ \A i \in 2..Len(run.load_results) : run.load_results[i].ok
    /\ run.quality = "True"
    /\ IsEmpty(tables.environment)

AppendedTables == {"pet_activities", "environment", "staff_logs"}

\* C30: a load whose operations all succeed appends the rows of the run to
\* pet_activities, environment and staff_logs and replaces the rows of
\* daily_summary by those of the run, except that an empty daily summary
\* leaves the stored one as it was.
C30_ReplaceSummaryAppendOthers ==
    [][(pc = "load" /\ pc' = "report" /\ AllSucceeded(run'.load_results)) =>
        /\ \A name \in AppendedTables :
               db'[name] = db[name] \o StoredRows(tables[name])
        /\ db'.daily_summary =
               IF IsEmpty(tables.daily_summary) THEN db.daily_summary
               ELSE StoredRows(tables.daily_summary)]_vars

\* after the second run the activity table holds the lines of both runs and
\* the daily summary those of the second only
C30_Witness ==
    /\ run.runs = 2
    /\ pc = "report"
    /\ AllSucceeded(run.load_results)
    /\ Len(db.pet_activities) = 2
    /\ db.pet_activities[1] # db.pet_activities[2]
    /\ Len(db.daily_summary) = 1
    /\ db.daily_summary = StoredRows(tables.daily_summary)

\* a second run whose daily summary is empty, over a stored daily summary
C30_EmptySummaryWitness ==
    /\ run.runs = 2
    /\ pc = "report"
    /\ AllSucceeded(run.load_results)
    /\ IsEmpty(tables.daily_summary)
    /\ db.daily_summary # <<>>

====
